---- MODULE Spec2Model ----
(***************************************************************************)
(* A model of the daycarewatch ingestion scripts:                          *)
(*   scripts/minnesota/add_capacity_estimates.py   (capacity estimator)    *)
(*   scripts/minnesota/convert_mn_geopackage.py    (geopackage converter)  *)
(*   scripts/minnesota/scrape_minnesota_dhs.py     (MN DHS scraper)        *)
(*   scripts/california/scrape_ccld.py             (CA CCLD scraper)       *)
(*   scripts/process-maryland.py                   (MD roster processor)   *)
(*                                                                         *)
(* Each script is one program; the variable prog says which program a      *)
(* behaviour runs.  A data directory is the function files (file name to   *)
(* JSON value) together with summary (the content of summary.json).        *)
(*                                                                         *)
(* Encoding of Python/JSON values:                                         *)
(*   None / null in an integer-valued field   Null = <<>>, a value n <<n>> *)
(*   dict                                     function on its keys         *)
(*   list                                     sequence                     *)
(*   a missing dict key                       key not in DOMAIN            *)
(*   a JSON file                              [kind |-> "list", items] or  *)
(*                                            [kind |-> "dict", ...]       *)
(*   text on which the code works by character   sequence of characters;   *)
(*   Str(s) is the spelling of the string s                                *)
(***************************************************************************)
EXTENDS Integers, Sequences, FiniteSets, TLC

VARIABLES
    prog,       \* the program this behaviour runs
    files,      \* data directory: file name -> JSON value of the file
    summary,    \* content of summary.json, or NoFile
    now,        \* the wall clock read by datetime.now()
    input,      \* the raw input of the program (files as supplied, rows, responses)
    ret,        \* what the last operation returned (with its arguments)
    pc,         \* the position of a running all-counties loop, or Idle
    runs,       \* history: the outputs of the pipeline runs made so far
    processed   \* history: files a real (non dry) estimation run has rewritten

vars == <<prog, files, summary, now, input, ret, pc, runs, processed>>

----------------------------------------------------------------------------
(* Bounds of the model *)

MaxFacilities == 2      \* most facilities in the files of an initial directory
MaxRuns == 2            \* most commands (runs of a program) in a behaviour
MaxClock == 1           \* the clock stops advancing here

----------------------------------------------------------------------------
(* Python values *)

Null == <<>>
Some(n) == <<n>>
IsNull(v) == v = Null

EmptyDict == [k \in {} |-> 0]
Get(d, k, default) == IF k \in DOMAIN d THEN d[k] ELSE default
Put(d, k, v) == [x \in DOMAIN d \cup {k} |-> IF x = k THEN v ELSE d[x]]

\* Count that stores 1 instead of adding 1: d[k] = 1
Count_once(d, k) == Put(d, k, 1)

\* d[k] = d.get(k, 0) + 1 (the counting idiom of the scripts)
Count(d, k) == Put(d, k, Get(d, k, 0) + 1)

NoFile == [no_such_file |-> TRUE]
Idle == [run |-> "idle"]
JsonList(items) == [kind |-> "list", items |-> items]
IsList(v) == v.kind = "list"

SeqsUpTo(S, n) == UNION {[1..k -> S] : k \in 0..n}

RECURSIVE SumSeq(_)
SumSeq(s) == IF s = <<>> THEN 0 ELSE s[1] + SumSeq(Tail(s))

RECURSIVE SumOver(_, _)
SumOver(f, S) ==
    IF S = {} THEN 0
    ELSE LET x == CHOOSE y \in S : TRUE IN f[x] + SumOver(f, S \ {x})

----------------------------------------------------------------------------
(* Text *)

UpperChars == <<"A","B","C","D","E","F","G","H","I","J","K","L","M",
                "N","O","P","Q","R","S","T","U","V","W","X","Y","Z">>
LowerChars == <<"a","b","c","d","e","f","g","h","i","j","k","l","m",
                "n","o","p","q","r","s","t","u","v","w","x","y","z">>

ToLower == [c \in {UpperChars[i] : i \in 1..26} |->
                LowerChars[CHOOSE i \in 1..26 : UpperChars[i] = c]]
ToUpper == [c \in {LowerChars[i] : i \in 1..26} |->
                UpperChars[CHOOSE i \in 1..26 : LowerChars[i] = c]]

IsUpper(c) == c \in DOMAIN ToLower
IsLower(c) == c \in DOMAIN ToUpper
IsAlpha(c) == IsUpper(c) \/ IsLower(c)
LowerChar(c) == IF IsUpper(c) THEN ToLower[c] ELSE c
UpperChar(c) == IF IsLower(c) THEN ToUpper[c] ELSE c

\* str.lower()
Lower(t) == [i \in 1..Len(t) |-> LowerChar(t[i])]

\* sub in t
Contains(sub, t) ==
    \E i \in 0..(Len(t) - Len(sub)) : SubSeq(t, i + 1, i + Len(sub)) = sub

\* str.upper()
Upper(t) == [i \in 1..Len(t) |-> UpperChar(t[i])]

\* str.title(): a letter is upper-cased when the character before it is not a
\* letter, lower-cased otherwise; other characters are kept
Title(t) ==
    [i \in 1..Len(t) |->
        IF ~IsAlpha(t[i]) THEN t[i]
        ELSE IF i = 1 \/ ~IsAlpha(t[i - 1]) THEN UpperChar(t[i])
        ELSE LowerChar(t[i])]

\* str.strip(): leading and trailing whitespace removed
Whitespace == {" ", "\n"}
RECURSIVE LStrip(_)
LStrip(t) == IF t # <<>> /\ t[1] \in Whitespace THEN LStrip(Tail(t)) ELSE t
RECURSIVE RStrip(_)
RStrip(t) ==
    IF t # <<>> /\ t[Len(t)] \in Whitespace THEN RStrip(SubSeq(t, 1, Len(t) - 1)) ELSE t
Strip(t) == LStrip(RStrip(t))

StartsWith(t, prefix) ==
    Len(t) >= Len(prefix) /\ SubSeq(t, 1, Len(prefix)) = prefix
EndsWith(t, suffix) ==
    Len(t) >= Len(suffix) /\ SubSeq(t, Len(t) - Len(suffix) + 1, Len(t)) = suffix

\* str.replace(old, new) for a non-empty old: every occurrence, left to right
RECURSIVE Replace(_, _, _)
Replace(t, old, new) ==
    IF t = <<>> THEN <<>>
    ELSE IF StartsWith(t, old)
    THEN new \o Replace(SubSeq(t, Len(old) + 1, Len(t)), old, new)
    ELSE <<t[1]>> \o Replace(Tail(t), old, new)

\* the order of str comparison (code points) on the characters the model uses
CodePoints ==
    <<" ", "-", ".">> \o UpperChars \o <<"_">> \o LowerChars
CodePoint == [c \in {CodePoints[i] : i \in 1..Len(CodePoints)} |->
                 CHOOSE i \in 1..Len(CodePoints) : CodePoints[i] = c]

RECURSIVE StrLess(_, _)
StrLess(a, b) ==
    IF b = <<>> THEN FALSE
    ELSE IF a = <<>> THEN TRUE
    ELSE IF a[1] = b[1] THEN StrLess(Tail(a), Tail(b))
    ELSE CodePoint[a[1]] < CodePoint[b[1]]

\* sorted(S, key) of a set of texts, the key being the text followed by suffix
RECURSIVE Sorted(_, _)
Sorted(S, suffix) ==
    IF S = {} THEN <<>>
    ELSE LET m == CHOOSE x \in S : \A y \in S \ {x} : StrLess(x \o suffix, y \o suffix)
         IN <<m>> \o Sorted(S \ {m}, suffix)

\* The spelling of the strings the model uses.
Str(s) ==
    CASE s = "" -> <<>>
      [] s = "Unknown" -> <<"U", "n", "k", "n", "o", "w", "n">>
      [] s = "Child Care Center" -> <<"C", "h", "i", "l", "d", " ", "C", "a", "r", "e", " ", "C", "e", "n", "t", "e", "r">>
      [] s = "Family Child Care" -> <<"F", "a", "m", "i", "l", "y", " ", "C", "h", "i", "l", "d", " ", "C", "a", "r", "e">>
      [] s = "Group Family Day Care" -> <<"G", "r", "o", "u", "p", " ", "F", "a", "m", "i", "l", "y", " ", "D", "a", "y", " ", "C", "a", "r", "e">>
      [] s = "School-Age" -> <<"S", "c", "h", "o", "o", "l", "-", "A", "g", "e">>
      [] s = "Early Head Start" -> <<"E", "a", "r", "l", "y", " ", "H", "e", "a", "d", " ", "S", "t", "a", "r", "t">>
      [] s = "Head Start" -> <<"H", "e", "a", "d", " ", "S", "t", "a", "r", "t">>
      [] s = "default" -> <<"d", "e", "f", "a", "u", "l", "t">>
      [] s = "center" -> <<"c", "e", "n", "t", "e", "r">>
      [] s = "family" -> <<"f", "a", "m", "i", "l", "y">>
      [] s = "group" -> <<"g", "r", "o", "u", "p">>
      [] s = "school" -> <<"s", "c", "h", "o", "o", "l">>
      [] s = "age" -> <<"a", "g", "e">>
      [] s = "head start" -> <<"h", "e", "a", "d", " ", "s", "t", "a", "r", "t">>
      [] s = "early" -> <<"e", "a", "r", "l", "y">>
      [] s = "_facilities.json" -> <<"_", "f", "a", "c", "i", "l", "i", "t", "i", "e", "s", ".", "j", "s", "o", "n">>
      [] s = "hennepin" -> <<"h", "e", "n", "n", "e", "p", "i", "n">>
      [] s = "ramsey" -> <<"r", "a", "m", "s", "e", "y">>
      [] s = "Minneapolis" -> <<"M", "i", "n", "n", "e", "a", "p", "o", "l", "i", "s">>
      [] s = "Saint Paul" -> <<"S", "a", "i", "n", "t", " ", "P", "a", "u", "l">>
      [] s = "St. Paul" -> <<"S", "t", ".", " ", "P", "a", "u", "l">>
      [] s = "St Paul" -> <<"S", "t", " ", "P", "a", "u", "l">>
      [] s = "Duluth" -> <<"D", "u", "l", "u", "t", "h">>
      [] s = "Saint Joseph" -> <<"S", "a", "i", "n", "t", " ", "J", "o", "s", "e", "p", "h">>
      [] s = "McGregor" -> <<"M", "c", "G", "r", "e", "g", "o", "r">>
      [] s = "St. Joseph" -> <<"S", "t", ".", " ", "J", "o", "s", "e", "p", "h">>
      [] s = "Duluth " -> <<"D", "u", "l", "u", "t", "h", " ">>
      [] s = "Nowhere" -> <<"N", "o", "w", "h", "e", "r", "e">>
      [] s = "Saint " -> <<"S", "a", "i", "n", "t", " ">>
      [] s = "ST " -> <<"S", "T", " ">>
      [] s = "ST. " -> <<"S", "T", ".", " ">>
      [] s = "BLANK" -> <<"B", "L", "A", "N", "K">>
      [] s = "A" -> <<"A">>
      [] s = " B" -> <<" ", "B">>
      [] s = "C" -> <<"C">>
      [] s = "D" -> <<"D">>
      [] s = "E" -> <<"E">>
      [] s = "Hennepin" -> <<"H", "e", "n", "n", "e", "p", "i", "n">>
      [] s = "Ramsey" -> <<"R", "a", "m", "s", "e", "y">>
      [] s = "St. Louis" -> <<"S", "t", ".", " ", "L", "o", "u", "i", "s">>
      [] s = "Stearns" -> <<"S", "t", "e", "a", "r", "n", "s">>
      [] s = "Aitkin" -> <<"A", "i", "t", "k", "i", "n">>
      [] s = "Alameda" -> <<"A", "l", "a", "m", "e", "d", "a">>
      [] s = "San Diego" -> <<"S", "a", "n", " ", "D", "i", "e", "g", "o">>
      [] s = "San_Diego" -> <<"S", "a", "n", "_", "D", "i", "e", "g", "o">>
      [] s = "Kid Co" -> <<"K", "i", "d", " ", "C", "o">>
      [] s = "KID CO" -> <<"K", "I", "D", " ", "C", "O">>
      [] s = " Kid\nCare " -> <<" ", "K", "i", "d", "\n", "C", "a", "r", "e", " ">>
      [] s = "1 Main St, Rockville, MD 20850" -> <<"1", " ", "M", "a", "i", "n", " ", "S", "t", ",", " ", "R", "o", "c", "k", "v", "i", "l", "l", "e", ",", " ", "M", "D", " ", "2", "0", "8", "5", "0">>
      [] s = "Montgomery" -> <<"M", "o", "n", "t", "g", "o", "m", "e", "r", "y">>
      [] s = "MONTGOMERY" -> <<"M", "O", "N", "T", "G", "O", "M", "E", "R", "Y">>
      [] s = "Howard" -> <<"H", "o", "w", "a", "r", "d">>
      [] s = "Elm School" -> <<"E", "l", "m", " ", "S", "c", "h", "o", "o", "l">>
      [] s = "CTR" -> <<"C", "T", "R">>
      [] s = "FCCH" -> <<"F", "C", "C", "H">>
      [] s = "LFCCH" -> <<"L", "F", "C", "C", "H">>
      [] s = "LOC" -> <<"L", "O", "C">>
      [] s = "LOC " -> <<"L", "O", "C", " ">>
      [] s = "Family Child Care Home" -> <<"F", "a", "m", "i", "l", "y", " ", "C", "h", "i", "l", "d", " ", "C", "a", "r", "e", " ", "H", "o", "m", "e">>
      [] s = "Large Family Child Care Home" -> <<"L", "a", "r", "g", "e", " ", "F", "a", "m", "i", "l", "y", " ", "C", "h", "i", "l", "d", " ", "C", "a", "r", "e", " ", "H", "o", "m", "e">>
      [] s = "Letter of Compliance" -> <<"L", "e", "t", "t", "e", "r", " ", "o", "f", " ", "C", "o", "m", "p", "l", "i", "a", "n", "c", "e">>
      [] s = "Open" -> <<"O", "p", "e", "n">>
      [] s = "Closed" -> <<"C", "l", "o", "s", "e", "d">>
      [] s = "Suspended" -> <<"S", "u", "s", "p", "e", "n", "d", "e", "d">>
      [] s = "Revoked" -> <<"R", "e", "v", "o", "k", "e", "d">>
      [] s = "LICENSED" -> <<"L", "I", "C", "E", "N", "S", "E", "D">>
      [] s = "CLOSED" -> <<"C", "L", "O", "S", "E", "D">>
      [] s = "SUSPENDED" -> <<"S", "U", "S", "P", "E", "N", "D", "E", "D">>
      [] s = "REVOKED" -> <<"R", "E", "V", "O", "K", "E", "D">>
      [] s = "Pending" -> <<"P", "e", "n", "d", "i", "n", "g">>
      [] s = "Provider Names" -> <<"P", "r", "o", "v", "i", "d", "e", "r", " ", "N", "a", "m", "e", "s">>
      [] s = "MD" -> <<"M", "D">>
      [] s = "montgomery" -> <<"m", "o", "n", "t", "g", "o", "m", "e", "r", "y">>
      [] s = "MD-MONT-" -> <<"M", "D", "-", "M", "O", "N", "T", "-">>
      [] s = " " -> <<" ">>
      [] s = "minneapolis" -> <<"m", "i", "n", "n", "e", "a", "p", "o", "l", "i", "s">>
      [] s = " Duluth " -> <<" ", "D", "u", "l", "u", "t", "h", " ">>
      [] s = "Duluth." -> <<"D", "u", "l", "u", "t", "h", ".">>
      [] s = "Duluth," -> <<"D", "u", "l", "u", "t", "h", ",">>
      [] s = "ST PAUL" -> <<"S", "T", " ", "P", "A", "U", "L">>
      [] s = "st joseph" -> <<"s", "t", " ", "j", "o", "s", "e", "p", "h">>
      [] s = "MCGREGOR" -> <<"M", "C", "G", "R", "E", "G", "O", "R">>
      [] s = "St.Joseph" -> <<"S", "t", ".", "J", "o", "s", "e", "p", "h">>
      [] s = "child care center" -> <<"c", "h", "i", "l", "d", " ", "c", "a", "r", "e", " ", "c", "e", "n", "t", "e", "r">>
      [] s = "Day Care Center" -> <<"D", "a", "y", " ", "C", "a", "r", "e", " ", "C", "e", "n", "t", "e", "r">>
      [] s = "Group Family Home" -> <<"G", "r", "o", "u", "p", " ", "F", "a", "m", "i", "l", "y", " ", "H", "o", "m", "e">>
      [] s = "Family Home" -> <<"F", "a", "m", "i", "l", "y", " ", "H", "o", "m", "e">>
      [] s = "School Program" -> <<"S", "c", "h", "o", "o", "l", " ", "P", "r", "o", "g", "r", "a", "m">>
      [] s = "Teenage Club" -> <<"T", "e", "e", "n", "a", "g", "e", " ", "C", "l", "u", "b">>
      [] s = "Early Head Start Program" -> <<"E", "a", "r", "l", "y", " ", "H", "e", "a", "d", " ", "S", "t", "a", "r", "t", " ", "P", "r", "o", "g", "r", "a", "m">>
      [] s = "Head Start Program" -> <<"H", "e", "a", "d", " ", "S", "t", "a", "r", "t", " ", "P", "r", "o", "g", "r", "a", "m">>
      [] s = "Certified CENTER" -> <<"C", "e", "r", "t", "i", "f", "i", "e", "d", " ", "C", "E", "N", "T", "E", "R">>
      [] s = "Early Learning" -> <<"E", "a", "r", "l", "y", " ", "L", "e", "a", "r", "n", "i", "n", "g">>
      [] s = "Family Center" -> <<"F", "a", "m", "i", "l", "y", " ", "C", "e", "n", "t", "e", "r">>

----------------------------------------------------------------------------
(* add_capacity_estimates.py *)

CAPACITY_ESTIMATES ==
    [k \in {"Child Care Center", "child care center", "Family Child Care",
            "family child care", "Family Day Care", "Group Family Child Care",
            "Group Family Day Care", "School Age Child Care", "School-Age",
            "Head Start", "Early Head Start", "default"} |->
        CASE k \in {"Child Care Center", "child care center"} -> 75
          [] k \in {"Family Child Care", "family child care", "Family Day Care"} -> 12
          [] k \in {"Group Family Child Care", "Group Family Day Care"} -> 14
          [] k \in {"School Age Child Care", "School-Age"} -> 50
          [] k = "Head Start" -> 60
          [] k = "Early Head Start" -> 20
          [] k = "default" -> 25]

\* get_estimated_capacity with a table whose family estimate is 0 ("no estimate")
get_estimated_capacity_zero(facility_type) ==
    IF facility_type \in {"Family Child Care", "family child care", "Family Day Care"}
    THEN 0
    ELSE IF facility_type \in DOMAIN CAPACITY_ESTIMATES
    THEN CAPACITY_ESTIMATES[facility_type]
    ELSE CAPACITY_ESTIMATES["default"]

\* get_estimated_capacity without the partial matches: the table or the default
get_estimated_capacity_exact(facility_type) ==
    IF facility_type \in DOMAIN CAPACITY_ESTIMATES
    THEN CAPACITY_ESTIMATES[facility_type]
    ELSE CAPACITY_ESTIMATES["default"]

get_estimated_capacity(facility_type) ==
    IF facility_type = "" THEN CAPACITY_ESTIMATES["default"]
    ELSE IF facility_type \in DOMAIN CAPACITY_ESTIMATES
    THEN CAPACITY_ESTIMATES[facility_type]
    ELSE LET partial(facility_type_lower) ==
                 IF Contains(Str("center"), facility_type_lower)
                 THEN CAPACITY_ESTIMATES["Child Care Center"]
                 ELSE IF Contains(Str("family"), facility_type_lower)
                         /\ Contains(Str("group"), facility_type_lower)
                 THEN CAPACITY_ESTIMATES["Group Family Child Care"]
                 ELSE IF Contains(Str("family"), facility_type_lower)
                 THEN CAPACITY_ESTIMATES["Family Child Care"]
                 ELSE IF Contains(Str("school"), facility_type_lower)
                         \/ Contains(Str("age"), facility_type_lower)
                 THEN CAPACITY_ESTIMATES["School Age Child Care"]
                 ELSE IF Contains(Str("head start"), facility_type_lower)
                 THEN IF Contains(Str("early"), facility_type_lower)
                      THEN CAPACITY_ESTIMATES["Early Head Start"]
                      ELSE CAPACITY_ESTIMATES["Head Start"]
                 ELSE CAPACITY_ESTIMATES["default"]
         IN partial(Lower(Str(facility_type)))

ZeroStats == [total |-> 0, updated |-> 0, already_has_capacity |-> 0, by_type |-> EmptyDict]

\* the test of line 103 with "is None" for "is not None": a null capacity is
\* taken as real
HasRealCapacity_null(current_capacity) ==
    IsNull(current_capacity) \/ current_capacity[1] > 0

\* lines 101-103: "already has real capacity"
HasRealCapacity(current_capacity) ==
    ~IsNull(current_capacity) /\ current_capacity[1] > 0

\* the count of a type set to 1 instead of incremented
pcf_count_once(by_type, facility_type) ==
    [Put(by_type, facility_type,
         Get(by_type, facility_type, [count |-> 0, estimated_capacity |-> 0]))
        EXCEPT ![facility_type].count = 1]

\* lines 95-98: the facility is counted under its type
pcf_count(by_type, facility_type) ==
    [Put(by_type, facility_type,
         Get(by_type, facility_type, [count |-> 0, estimated_capacity |-> 0]))
        EXCEPT ![facility_type].count = @ + 1]

\* one iteration of the loop of process_county_file (lines 92-112) on the i-th facility
pcf_step(acc, i) ==
    LET step(facility, facility_type, by_type, estimated) ==
            IF HasRealCapacity(Get(facility, "capacity", Null))
            THEN [facilities |-> acc.facilities,
                  stats |-> [acc.stats EXCEPT !.total = @ + 1,
                                              !.by_type = by_type,
                                              !.already_has_capacity = @ + 1]]
            ELSE [facilities |->
                     [acc.facilities EXCEPT ![i] =
                         Put(Put(facility, "capacity", Some(estimated)),
                             "capacity_estimated", TRUE)],
                  stats |-> [acc.stats EXCEPT
                                !.total = @ + 1,
                                !.by_type = [by_type EXCEPT
                                                ![facility_type].estimated_capacity = estimated],
                                !.updated = @ + 1]]
        typed(facility, facility_type) ==
            step(facility, facility_type, pcf_count(acc.stats.by_type, facility_type),
                 get_estimated_capacity(facility_type))
    IN typed(acc.facilities[i], Get(acc.facilities[i], "facility_type", "Unknown"))

RECURSIVE pcf_loop(_, _)
pcf_loop(acc, i) ==
    IF i > Len(acc.facilities) THEN acc ELSE pcf_loop(pcf_step(acc, i), i + 1)

\* process_county_file that writes the file in a dry run too
process_county_file_write(dir, filepath, dry_run) ==
    IF ~IsList(dir[filepath])
    THEN [dir |-> dir, stats |-> ZeroStats]
    ELSE LET save(r) ==
                 [dir |-> [dir EXCEPT ![filepath] = JsonList(r.facilities)],
                  stats |-> r.stats]
         IN save(pcf_loop([facilities |-> dir[filepath].items, stats |-> ZeroStats], 1))

\* process_county_file that writes the facilities it has estimated only
process_county_file_estimated(dir, filepath, dry_run) ==
    IF ~IsList(dir[filepath])
    THEN [dir |-> dir, stats |-> ZeroStats]
    ELSE LET estimated(facility) == "capacity_estimated" \in DOMAIN facility
             save(r) ==
                 [dir |-> IF dry_run THEN dir
                          ELSE [dir EXCEPT ![filepath] =
                                   JsonList(SelectSeq(r.facilities, estimated))],
                  stats |-> r.stats]
         IN save(pcf_loop([facilities |-> dir[filepath].items, stats |-> ZeroStats], 1))

\* process_county_file(filepath, dry_run) on a directory dir:
\* the directory afterwards and the statistics returned
process_county_file(dir, filepath, dry_run) ==
    IF ~IsList(dir[filepath])
    THEN [dir |-> dir, stats |-> ZeroStats]
    ELSE LET save(r) ==
                 [dir |-> IF dry_run THEN dir
                          ELSE [dir EXCEPT ![filepath] = JsonList(r.facilities)],
                  stats |-> r.stats]
         IN save(pcf_loop([facilities |-> dir[filepath].items, stats |-> ZeroStats], 1))

\* A facility file <stem>_facilities.json is files[stem]; summary.json is the
\* variable summary.  FileName(stem) is the name of the file.
FacilitiesJson == Str("_facilities.json")
FileName(stem) == stem \o FacilitiesJson

\* sorted(data_dir.glob("*_facilities.json")) (line 132): the stems, ordered by file name
FacilityFiles(dir) == Sorted(DOMAIN dir, FacilitiesJson)

ZeroTotalStats ==
    [files_processed |-> 0, total_facilities |-> 0, facilities_updated |-> 0,
     already_has_capacity |-> 0, by_type |-> EmptyDict]

\* lines 155-160: merge the per-type statistics of one file into the totals
RECURSIVE merge_type_stats(_, _, _)
merge_type_stats(total_by_type, by_type, todo) ==
    IF todo = {} THEN total_by_type
    ELSE LET ftype == CHOOSE t \in todo : TRUE
             t0 == IF ftype \notin DOMAIN total_by_type
                   THEN Put(total_by_type, ftype, [count |-> 0, estimated_capacity |-> 0])
                   ELSE total_by_type
             t1 == [t0 EXCEPT ![ftype].count = @ + by_type[ftype].count]
             t2 == IF by_type[ftype].estimated_capacity > 0
                   THEN [t1 EXCEPT ![ftype].estimated_capacity = by_type[ftype].estimated_capacity]
                   ELSE t1
         IN merge_type_stats(t2, by_type, todo \ {ftype})

\* lines 147-160: the statistics of one file added to the totals
pd_merge(total_stats, stats) ==
    IF stats.total > 0
    THEN [files_processed |-> total_stats.files_processed + 1,
          total_facilities |-> total_stats.total_facilities + stats.total,
          facilities_updated |-> total_stats.facilities_updated + stats.updated,
          already_has_capacity |->
              total_stats.already_has_capacity + stats.already_has_capacity,
          by_type |-> merge_type_stats(total_stats.by_type, stats.by_type,
                                       DOMAIN stats.by_type)]
    ELSE total_stats

\* the loop of process_directory (lines 141-160) from the i-th file on
RECURSIVE pd_loop(_, _, _, _, _)
pd_loop(dir, facility_files, total_stats, i, dry_run) ==
    IF i > Len(facility_files) THEN [dir |-> dir, stats |-> total_stats]
    ELSE LET next(r) ==
                 pd_loop(r.dir, facility_files, pd_merge(total_stats, r.stats),
                         i + 1, dry_run)
         IN next(process_county_file(dir, facility_files[i], dry_run))

process_directory(dir, dry_run) ==
    pd_loop(dir, FacilityFiles(dir), ZeroTotalStats, 1, dry_run)

CapacityNote ==
    "Capacity values are estimates based on facility type. Real capacity data pending from MN DHS."

\* update_summary: the content of summary.json afterwards
update_summary(sum, clock, dry_run) ==
    IF sum = NoFile THEN sum
    ELSE IF dry_run THEN sum
    ELSE Put(Put(sum, "capacity_note", CapacityNote), "capacity_estimated_at", clock)

----------------------------------------------------------------------------
(* The capacity estimator as a program: prog = "estimate" *)

\* Facilities as the sources write them: the geopackage converter and the
\* Maryland processor write capacity null, the CA scraper writes an integer
\* (0 when the source gave none); none writes capacity_estimated.
EstimatorFacilities ==
    { [name |-> "A", facility_type |-> "Child Care Center", capacity |-> Null],
      [name |-> "B", facility_type |-> "Family Child Care", capacity |-> Some(0)],
      [name |-> "C", facility_type |-> "Family Child Care", capacity |-> Some(40)],
      [name |-> "D"] }

\* A file that is not a facility list (the MN DHS scraper writes a dict).
DictFile == [kind |-> "dict", county |-> "Hennepin", total_facilities |-> 0]

EstimatorFileContents ==
    {JsonList(s) : s \in SeqsUpTo(EstimatorFacilities, MaxFacilities)} \cup {DictFile}

EstimatorFiles == {Str("hennepin"), Str("ramsey")}

\* number of facilities in the facility lists of a directory
FacilityCount(dir) ==
    SumOver([f \in DOMAIN dir |-> IF IsList(dir[f]) THEN Len(dir[f].items) ELSE 0],
            DOMAIN dir)

InitEstimate ==
    /\ prog = "estimate"
    /\ files \in [EstimatorFiles -> EstimatorFileContents]
    /\ FacilityCount(files) <= MaxFacilities
    /\ summary \in {NoFile, [state |-> "Minnesota", total_facilities |-> 0]}
    /\ now = 0
    /\ input = files
    /\ ret = [op |-> "none"]
    /\ pc = Idle
    /\ runs = <<>>
    /\ processed = {}

ProcessCountyFile(filepath, dry_run) ==
    /\ prog = "estimate"
    /\ LET done(r) ==
               /\ files' = r.dir
               /\ ret' = [op |-> "process_county_file", filepath |-> filepath,
                          dry_run |-> dry_run, stats |-> r.stats,
                          rerun |-> filepath \in processed, changed |-> r.dir # files]
       IN done(process_county_file(files, filepath, dry_run))
    /\ processed' = IF dry_run \/ ~IsList(files[filepath]) THEN processed
                    ELSE processed \cup {filepath}
    /\ UNCHANGED <<prog, summary, now, input, pc, runs>>

\* main (lines 221-225): process_directory, then update_summary
EstimateMain(dry_run) ==
    /\ prog \in {"estimate", "convert"}
    /\ prog = "convert" => Len(runs) < MaxRuns
    /\ LET done(r) ==
               /\ files' = r.dir
               /\ ret' = [op |-> "main", dry_run |-> dry_run, stats |-> r.stats,
                          rerun |-> \A f \in DOMAIN files :
                                        IsList(files[f]) => f \in processed,
                          changed |-> r.dir # files]
       IN done(process_directory(files, dry_run))
    /\ summary' = update_summary(summary, now, dry_run)
    /\ processed' = IF dry_run THEN processed
                    ELSE processed \cup {f \in DOMAIN files : IsList(files[f])}
    /\ runs' = IF prog = "convert" THEN Append(runs, [cmd |-> "estimate"]) ELSE runs
    /\ UNCHANGED <<prog, now, input, pc>>

NextEstimate ==
    \/ \E filepath \in DOMAIN files, dry_run \in BOOLEAN :
           ProcessCountyFile(filepath, dry_run)
    \/ \E dry_run \in BOOLEAN : EstimateMain(dry_run)

SpecEstimate == InitEstimate /\ [][NextEstimate]_vars

----------------------------------------------------------------------------
(* convert_mn_geopackage.py *)

\* An excerpt of the city table (lines 14-601): the entries the cities of the
\* model's rows can reach.
CITY_TO_COUNTY ==
    [k \in {"Minneapolis", "Saint Paul", "St. Paul", "St Paul", "Duluth",
            "Saint Joseph", "McGregor"} |->
        CASE k = "Minneapolis" -> "Hennepin"
          [] k \in {"Saint Paul", "St. Paul", "St Paul"} -> "Ramsey"
          [] k = "Duluth" -> "St. Louis"
          [] k = "Saint Joseph" -> "Stearns"
          [] k = "McGregor" -> "Aitkin"]

\* text in CITY_TO_COUNTY, and CITY_TO_COUNTY[text] (as Some(county))
InCityTable(t) == \E k \in DOMAIN CITY_TO_COUNTY : Str(k) = t
CityTable(t) == Some(CITY_TO_COUNTY[CHOOSE k \in DOMAIN CITY_TO_COUNTY : Str(k) = t])

\* get_county_from_city that gives back the city when it finds no county
get_county_from_city_echo(city) ==
    IF IsNull(city) \/ city[1] = "" THEN Null
    ELSE IF InCityTable(Strip(Str(city[1]))) THEN CityTable(Strip(Str(city[1])))
    ELSE Some(city[1])

\* get_county_from_city with the exact lookup only
get_county_from_city_exact(city) ==
    IF IsNull(city) \/ city[1] = "" THEN Null
    ELSE IF InCityTable(Strip(Str(city[1]))) THEN CityTable(Strip(Str(city[1])))
    ELSE Null

\* get_county_from_city(city): city is Null or Some(string); Null or Some(county)
get_county_from_city(city) ==
    IF IsNull(city) \/ city[1] = "" THEN Null
    ELSE LET lookup(c, city_no_periods, city_title, saint3, saint4) ==
                 IF InCityTable(c) THEN CityTable(c)
                 ELSE IF InCityTable(city_no_periods) THEN CityTable(city_no_periods)
                 ELSE IF InCityTable(city_title) THEN CityTable(city_title)
                 ELSE IF StartsWith(Upper(c), Str("ST ")) /\ InCityTable(saint3)
                 THEN CityTable(saint3)
                 ELSE IF StartsWith(Upper(c), Str("ST. ")) /\ InCityTable(saint4)
                 THEN CityTable(saint4)
                 ELSE Null
             stripped(c) ==
                 lookup(c, Replace(c, <<".">>, <<>>), Title(c),
                        Str("Saint ") \o Title(SubSeq(c, 4, Len(c))),
                        Str("Saint ") \o Title(SubSeq(c, 5, Len(c))))
         IN stripped(Strip(Str(city[1])))

\* city.strip() if city else <otherwise>
StripOr(city, otherwise) ==
    IF IsNull(city) \/ city[1] = "" THEN otherwise ELSE Strip(Str(city[1]))

\* lines 661-682: the facility of a row (the fields that are copied from the
\* row unchanged or are always null are left out: address, address2, state,
\* zip_code, phone, the license dates, the visit counts and dhs_url)
gpkg_facility(row, county, clock) ==
    [license_number |-> row.License_Number,
     name |-> StripOr(Some(row.Name_of_Program), <<>>),
     facility_type |-> row.License_Type,
     city |-> StripOr(row.City, <<>>),
     county |-> county,
     capacity |-> Null,
     status |-> "LICENSED",
     scraped_at |-> clock]

\* lines 652-684: the loop over the rows, from row i on
RECURSIVE gpkg_loop(_, _, _, _)
gpkg_loop(rows, i, acc, clock) ==
    IF i > Len(rows) THEN acc
    ELSE LET filed(found, key, county) ==
                 gpkg_loop(rows, i + 1,
                    [unknown_cities |->
                        IF IsNull(found)
                        THEN Count(acc.unknown_cities, key)
                        ELSE acc.unknown_cities,
                     facilities_by_county |->
                        Put(acc.facilities_by_county, county,
                            Append(Get(acc.facilities_by_county, county, <<>>),
                                   gpkg_facility(rows[i], county, clock)))],
                    clock)
             resolved(found) ==
                 filed(found, StripOr(rows[i].City, Str("BLANK")),
                       IF IsNull(found) THEN "Unknown" ELSE found[1])
         IN resolved(get_county_from_city(rows[i].City))

\* line 703: the stem of a county's file name
county_file(county) ==
    Replace(Replace(Lower(Str(county)), <<" ">>, <<"_">>), <<".">>, <<>>)

\* write_json opening the file in mode 'a': the list is added to what the file holds
write_json_append(dir, stem, facilities) ==
    IF stem \in DOMAIN dir /\ IsList(dir[stem])
    THEN Put(dir, stem, JsonList(dir[stem].items \o facilities))
    ELSE Put(dir, stem, JsonList(facilities))

\* lines 706-707: open(filepath, 'w') and json.dump(facilities)
write_json(dir, stem, facilities) == Put(dir, stem, JsonList(facilities))

\* lines 699-711: save each county's list, Unknown excepted
RECURSIVE gpkg_save(_, _, _)
gpkg_save(dir, by_county, todo) ==
    IF todo = {} THEN dir
    ELSE LET county == CHOOSE c \in todo : TRUE
         IN gpkg_save(write_json(dir, county_file(county), by_county[county]),
                      by_county, todo \ {county})

\* lines 696-732: county_stats, total_facilities and the summary
gpkg_summary(by_county, clock) ==
    LET saved == DOMAIN by_county \ {"Unknown"}
        county_stats == [c \in saved |-> Len(by_county[c])]
    IN [state |-> "Minnesota",
        generated_at |-> clock,
        total_facilities |-> SumOver(county_stats, saved),
        counties_with_data |-> Cardinality(saved),
        counties |-> [c \in saved |->
                        [total_facilities |-> county_stats[c],
                         total_capacity |-> Null,
                         by_type |-> EmptyDict,
                         by_status |-> [LICENSED |-> county_stats[c]]]]]

----------------------------------------------------------------------------
(* The geopackage conversion as a program: prog = "convert".  The capacity  *)
(* estimator is run on the directory the conversion writes.                 *)

MaxRows == 2        \* most rows of the econ_child_care table

GpkgRows ==
    { [License_Number |-> "101", License_Type |-> "Child Care Center",
       Name_of_Program |-> "A", City |-> Some("Minneapolis")],
      [License_Number |-> "102", License_Type |-> "Family Child Care",
       Name_of_Program |-> " B", City |-> Some("St. Joseph")],
      [License_Number |-> "103", License_Type |-> "Family Child Care",
       Name_of_Program |-> "C", City |-> Some("Duluth ")],
      [License_Number |-> "104", License_Type |-> "Child Care Center",
       Name_of_Program |-> "D", City |-> Some("Nowhere")],
      [License_Number |-> "105", License_Type |-> "Family Child Care",
       Name_of_Program |-> "E", City |-> Null] }

InitConvert ==
    /\ prog = "convert"
    /\ files = EmptyDict
    /\ summary = NoFile
    /\ now = 0
    /\ input \in SeqsUpTo(GpkgRows, MaxRows)
    /\ ret = [op |-> "none"]
    /\ pc = Idle
    /\ runs = <<>>
    /\ processed = {}

\* datetime.now() advances between the runs; a run reads one value
Tick ==
    /\ prog \in {"convert", "ccld"}
    /\ now < MaxClock
    /\ now' = now + 1
    /\ UNCHANGED <<prog, files, summary, input, ret, pc, runs, processed>>

\* main of convert_mn_geopackage.py (lines 630-740)
Convert ==
    /\ prog = "convert"
    /\ Len(runs) < MaxRuns
    /\ LET written(r, dir, sum) ==
               /\ files' = dir
               /\ summary' = sum
               /\ ret' = [op |-> "convert", unknown_cities |-> r.unknown_cities,
                          facilities_by_county |-> r.facilities_by_county]
               /\ runs' = Append(runs, [cmd |-> "all", files |-> dir, summary |-> sum])
           read(r) ==
               written(r,
                       gpkg_save(files, r.facilities_by_county,
                                 DOMAIN r.facilities_by_county \ {"Unknown"}),
                       gpkg_summary(r.facilities_by_county, now))
       IN read(gpkg_loop(input, 1, [unknown_cities |-> EmptyDict,
                                    facilities_by_county |-> EmptyDict], now))
    /\ processed' = {}
    /\ UNCHANGED <<prog, now, input, pc>>

NextConvert ==
    \/ Tick
    \/ Convert
    \/ \E dry_run \in BOOLEAN : EstimateMain(dry_run)

SpecConvert == InitConvert /\ [][NextConvert]_vars

----------------------------------------------------------------------------
(* scrape_ccld.py *)

\* An excerpt of CALIFORNIA_COUNTIES (lines 35-45), in the order of the list.
CALIFORNIA_COUNTIES == <<"Alameda", "San Diego">>

\* FACILITY_TYPES (lines 48-52): <<name, code>>
CCLD_FACILITY_TYPES ==
    << <<"CHILD CARE CENTER", "220">>,
       <<"FAMILY CHILD CARE HOME - LARGE", "850">>,
       <<"FAMILY CHILD CARE HOME - SMALL", "840">> >>

page_size == 100

\* The server's answer to the request for a page: pages is the sequence of its
\* answers to PageNumber 1, 2, ...; past the end it has no more results.
\* An answer is [status, Data, TotalRecords], or [raises |-> TRUE] when the
\* request or response.json() raises.
EmptyPage == [status |-> 200, Data |-> <<>>, TotalRecords |-> 0]
Response(pages, page) == IF page <= Len(pages) THEN pages[page] ELSE EmptyPage

\* A value of the JSON answer is None (Null), a number n (Some(n)) or a
\* string (JsonText of its characters).
JsonText(chars) == <<"str", chars>>
IsText(v) == Len(v) = 2

\* int(s) of a str s: surrounding whitespace is ignored and the decimal
\* digits give the number; Null stands for the ValueError of any other text
\* (signs and underscores are left out)
DecimalDigits == <<"0", "1", "2", "3", "4", "5", "6", "7", "8", "9">>
RECURSIVE int_digits(_, _)
int_digits(chars, n) ==
    IF chars = <<>> THEN Some(n)
    ELSE IF \E d \in 1..10 : DecimalDigits[d] = Head(chars)
    THEN int_digits(Tail(chars),
                    10 * n + (CHOOSE d \in 1..10 : DecimalDigits[d] = Head(chars)) - 1)
    ELSE Null
int_text(chars) == IF Strip(chars) = <<>> THEN Null ELSE int_digits(Strip(chars), 0)

\* int(item.get('FacilityCapacity', 0) or 0) (line 193): Null when int raises
ccld_capacity(item) ==
    LET c == Get(item, "FacilityCapacity", Some(0))
    IN IF IsNull(c) THEN Some(0)
       ELSE IF IsText(c) THEN (IF c[2] = <<>> THEN Some(0) ELSE int_text(c[2]))
       ELSE c

\* lines 184-196 (address, city, state, zip_code and phone, copied from the
\* item like name, are left out)
ccld_facility(item, county, facility_type_name) ==
    [license_number |-> Get(item, "FacilityNumber", ""),
     name |-> Get(item, "FacilityName", ""),
     facility_type |-> facility_type_name,
     county |-> county,
     capacity |-> ccld_capacity(item),
     status |-> Get(item, "FacilityStatus", "")]

\* the search that takes no notice of TotalRecords: it stops at an empty
\* page, a status other than 200 or an exception only
ccld_search_page_all(response, county, facility_type_name, page, acc) ==
    IF "raises" \in DOMAIN response \/ response.status # 200
    THEN [facilities |-> acc.facilities, requested |-> Append(acc.requested, page),
          errors |-> acc.errors + 1, done |-> TRUE]
    ELSE [facilities |-> acc.facilities \o
                         [i \in 1..Len(response.Data) |->
                             ccld_facility(response.Data[i], county, facility_type_name)],
          requested |-> Append(acc.requested, page),
          errors |-> acc.errors, done |-> response.Data = <<>>]

\* one iteration of the loop of search_facilities (lines 148-210) on the
\* answer to the request for page: the facilities, the pages requested and the
\* errors so far, and done when the loop is left.  An item whose capacity int
\* does not take raises ValueError after the items before it were appended.
ccld_search_page(response, county, facility_type_name, page, acc) ==
    LET requested == Append(acc.requested, page)
        failed(facilities) ==
            [facilities |-> facilities, requested |-> requested,
             errors |-> acc.errors + 1, done |-> TRUE]
        appended(results, n) ==
            acc.facilities \o
            [i \in 1..n |-> ccld_facility(results[i], county, facility_type_name)]
        parsed(results, total_records) ==
            IF results = <<>>
            THEN [facilities |-> acc.facilities, requested |-> requested,
                  errors |-> acc.errors, done |-> TRUE]
            ELSE IF \E i \in 1..Len(results) : IsNull(ccld_capacity(results[i]))
            THEN failed(appended(results,
                     (CHOOSE i \in 1..Len(results) :
                         /\ IsNull(ccld_capacity(results[i]))
                         /\ \A j \in 1..(i - 1) : ~IsNull(ccld_capacity(results[j]))) - 1))
            ELSE [facilities |-> appended(results, Len(results)),
                  requested |-> requested, errors |-> acc.errors,
                  done |-> page * page_size >= total_records]
    IN  IF "raises" \in DOMAIN response THEN failed(acc.facilities)
        ELSE IF response.status # 200 THEN failed(acc.facilities)
        ELSE parsed(Get(response, "Data", <<>>), Get(response, "TotalRecords", 0))

\* the loop of search_facilities (lines 148-210) from the request for page on
RECURSIVE ccld_search_loop(_, _, _, _, _)
ccld_search_loop(pages, county, facility_type_name, page, acc) ==
    LET next(r) ==
            IF r.done
            THEN [facilities |-> r.facilities, requested |-> r.requested,
                  errors |-> r.errors]
            ELSE ccld_search_loop(pages, county, facility_type_name, page + 1,
                     [facilities |-> r.facilities, requested |-> r.requested,
                      errors |-> r.errors])
    IN next(ccld_search_page(Response(pages, page), county, facility_type_name,
                             page, acc))

search_facilities(pages, county, facility_type_name) ==
    ccld_search_loop(pages, county, facility_type_name, 1,
                     [facilities |-> <<>>, requested |-> <<>>, errors |-> 0])

\* The CCLD server of the model: server.db is its list of facility items, of
\* which a search returns those of the county and type, on one page; the
\* detail page of an item with DetailFails fails (no 200, or an exception).
\* (input.include_details is the --include-details option of the runs.)
ServerPages(server, county, facility_type_code) ==
    LET match(item) == item.County = county /\ item.FacilityType = facility_type_code
        items == SelectSeq(server.db, match)
    IN <<[status |-> 200, Data |-> items, TotalRecords |-> Len(items)]>>

\* get_facility_details (lines 214-294): Null, or Some(details); of the
\* details ccld_url and last_inspection_date are modelled
get_facility_details(server, license_number) ==
    IF \E i \in 1..Len(server.db) :
           /\ Get(server.db[i], "FacilityNumber", "") = license_number
           /\ Get(server.db[i], "DetailFails", FALSE)
    THEN Null
    ELSE Some([ccld_url |-> license_number, last_inspection_date |-> Some(1)])

\* lines 321-338 for one facility_data: Some(the Facility as a dict), or Null
\* when Facility(**facility_data) raises TypeError for the missing fields
ccld_record(server, facility_data, include_details, clock) ==
    IF include_details
    THEN LET merged(details) ==
                 IF IsNull(details) THEN Null
                 ELSE Some(Put(details[1] @@ facility_data, "scraped_at", clock))
         IN merged(get_facility_details(server, facility_data.license_number))
    ELSE Some(Put([ccld_url |-> facility_data.license_number,
                   last_inspection_date |-> Null] @@ facility_data,
                  "scraped_at", clock))

\* the facilities found by the searches for the types from the t-th on (lines 317-319)
RECURSIVE ccld_found(_, _, _)
ccld_found(server, county, t) ==
    IF t > Len(CCLD_FACILITY_TYPES) THEN <<>>
    ELSE search_facilities(ServerPages(server, county, CCLD_FACILITY_TYPES[t][2]),
                           county, CCLD_FACILITY_TYPES[t][1]).facilities
         \o ccld_found(server, county, t + 1)

\* CCLDScraper.scrape_county (lines 296-342): [raised, facilities]
ccld_scrape_county(server, county, include_details, clock) ==
    LET created(records) ==
            IF \E i \in 1..Len(records) : IsNull(records[i])
            THEN [raised |-> TRUE]
            ELSE [raised |-> FALSE,
                  facilities |-> [i \in 1..Len(records) |-> records[i][1]]]
        found(all_facilities) ==
            created([i \in 1..Len(all_facilities) |->
                        ccld_record(server, all_facilities[i], include_details, clock)])
    IN found(ccld_found(server, county, 1))

\* lines 368-369 and 526-527: the stem of a county's file name
ccld_county_file(county) == Replace(Lower(Str(county)), <<" ">>, <<"_">>)

\* line 411: the county name generate_summary derives from a file name
ccld_county_name(stem) ==
    Title(Replace(Replace(FileName(stem), FacilitiesJson, <<>>), <<"_">>, <<" ">>))

\* the counting loops (lines 420-427, and 291-299 of the MN scraper): the
\* histogram of field key over facilities i, i+1, ..., added to acc
RECURSIVE CountBy(_, _, _, _, _)
CountBy(facilities, i, key, default, acc) ==
    IF i > Len(facilities) THEN acc
    ELSE CountBy(facilities, i + 1, key, default,
                 Count(acc, Get(facilities[i], key, default)))

\* sum(f.get('capacity', 0) for f in facilities) (line 415) raises TypeError
\* when a capacity is None
ccld_sum_raises(facilities) ==
    \E i \in 1..Len(facilities) : IsNull(Get(facilities[i], "capacity", Some(0)))

ccld_sum_capacity(facilities) ==
    SumSeq([i \in 1..Len(facilities) |-> Get(facilities[i], "capacity", Some(0))[1]])

\* the loop of generate_summary (lines 403-431) over the files in the order
\* os.listdir gives them, from the i-th on: [raised], or [raised, summary]
RECURSIVE ccld_summary_loop(_, _, _, _)
ccld_summary_loop(dir, order, i, sum) ==
    IF i > Len(order) THEN [raised |-> FALSE, summary |-> sum]
    ELSE LET added(facilities, county_stats) ==
                 ccld_summary_loop(dir, order, i + 1,
                    [generated_at |-> sum.generated_at,
                     counties |-> Put(sum.counties, ccld_county_name(order[i]), county_stats),
                     totals |->
                        [facilities |-> sum.totals.facilities + county_stats.total_facilities,
                         capacity |-> sum.totals.capacity + county_stats.total_capacity,
                         by_type |-> CountBy(facilities, 1, "facility_type", "Unknown",
                                             sum.totals.by_type)]])
             loaded(facilities) ==
                 IF ccld_sum_raises(facilities) THEN [raised |-> TRUE]
                 ELSE added(facilities,
                        [total_facilities |-> Len(facilities),
                         total_capacity |-> ccld_sum_capacity(facilities),
                         by_type |-> CountBy(facilities, 1, "facility_type", "Unknown",
                                             EmptyDict),
                         by_status |-> CountBy(facilities, 1, "status", "Unknown",
                                               EmptyDict)])
         IN loaded(dir[order[i]].items)

\* generate_summary(data_dir) (lines 391-433)
generate_summary(dir, order, clock) ==
    ccld_summary_loop(dir, order, 1,
        [generated_at |-> clock,
         counties |-> EmptyDict,
         totals |-> [facilities |-> 0, capacity |-> 0, by_type |-> EmptyDict]])

\* the orders in which os.listdir may give the files of a directory
ListDirOrders(dir) ==
    {order \in [1..Cardinality(DOMAIN dir) -> DOMAIN dir] :
        \A i, j \in DOMAIN order : i # j => order[i] # order[j]}

----------------------------------------------------------------------------
(* The CCLD scraper as a program: prog = "ccld" *)

MaxItems == 2       \* most facility items in the server's database

CCLDItems ==
    { [County |-> "Alameda", FacilityType |-> "220", FacilityNumber |-> "1",
       FacilityName |-> "A", FacilityCapacity |-> Some(30), FacilityStatus |-> "LICENSED"],
      [County |-> "Alameda", FacilityType |-> "850", FacilityNumber |-> "2",
       FacilityName |-> "B", FacilityStatus |-> "CLOSED", DetailFails |-> TRUE],
      [County |-> "San Diego", FacilityType |-> "220", FacilityNumber |-> "3",
       FacilityName |-> "C", FacilityCapacity |-> Null, DetailFails |-> TRUE] }

\* the --county and --output arguments of the single-county runs of the model:
\* Null is a directory, Some(stem) a path <stem>_facilities.json
SingleCounties == {"San Diego"}
SingleOutputs == {Null, Some(Str("San_Diego"))}

\* a file the Minnesota geopackage conversion wrote
GpkgWrittenDir ==
    [stem \in {Str("hennepin")} |->
        JsonList(<<gpkg_facility([License_Number |-> "101",
                                  License_Type |-> "Child Care Center",
                                  Name_of_Program |-> "A",
                                  City |-> Some("Minneapolis")], "Hennepin", 0)>>)]

\* The inputs of the model: the server's database, the --include-details
\* option of the runs, and what the data directory holds before the scraper
\* runs.
CCLDInputs ==
    [db : SeqsUpTo(CCLDItems, MaxItems), include_details : BOOLEAN, dir : {EmptyDict}]
    \cup [db : SeqsUpTo(CCLDItems, MaxItems - 1), include_details : {FALSE},
          dir : {GpkgWrittenDir}]

InitCCLD ==
    /\ prog = "ccld"
    /\ input \in CCLDInputs
    /\ files = input.dir
    /\ summary = NoFile
    /\ now = 0
    /\ ret = [op |-> "none"]
    /\ pc = Idle
    /\ runs = <<>>
    /\ processed = {}

\* main with --all-counties (lines 496-501): scrape_all_counties is entered
CCLDBeginAll ==
    /\ prog = "ccld"
    /\ pc = Idle
    /\ Len(runs) < MaxRuns
    /\ pc' = [run |-> "all", i |-> 1]
    /\ ret' = [op |-> "scrape_all_counties"]
    /\ UNCHANGED <<prog, files, summary, now, input, runs, processed>>

\* one iteration of the loop of scrape_all_counties (lines 363-377); an
\* exception of scrape_county ends the program
CCLDCounty ==
    /\ prog = "ccld"
    /\ pc.run = "all"
    /\ pc.i <= Len(CALIFORNIA_COUNTIES)
    /\ LET scraped(county, r) ==
               IF r.raised
               THEN /\ pc' = Idle
                    /\ ret' = [op |-> "scrape_county", raised |-> TRUE, county |-> county]
                    /\ runs' = Append(runs, [cmd |-> "failed"])
                    /\ files' = files
               ELSE /\ pc' = [pc EXCEPT !.i = @ + 1]
                    /\ ret' = [op |-> "scrape_county", raised |-> FALSE, county |-> county]
                    /\ runs' = runs
                    /\ files' = write_json(files, ccld_county_file(county), r.facilities)
       IN scraped(CALIFORNIA_COUNTIES[pc.i],
                  ccld_scrape_county(input, CALIFORNIA_COUNTIES[pc.i],
                                     input.include_details, now))
    /\ UNCHANGED <<prog, summary, now, input, processed>>

\* lines 503-507: after the loop, generate_summary and the write of summary.json
CCLDFinishAll ==
    /\ prog = "ccld"
    /\ pc.run = "all"
    /\ pc.i > Len(CALIFORNIA_COUNTIES)
    /\ \E order \in ListDirOrders(files) :
        LET generated(r) ==
                IF r.raised
                THEN /\ ret' = [op |-> "generate_summary", raised |-> TRUE]
                     /\ runs' = Append(runs, [cmd |-> "failed"])
                     /\ summary' = summary
                ELSE /\ ret' = [op |-> "generate_summary", raised |-> FALSE]
                     /\ summary' = r.summary
                     /\ runs' = Append(runs, [cmd |-> "all", files |-> files,
                                              summary |-> r.summary])
        IN generated(generate_summary(files, order, now))
    /\ pc' = Idle
    /\ UNCHANGED <<prog, files, now, input, processed>>

\* main with --county (lines 509-532)
CCLDSingle(county, output) ==
    /\ prog = "ccld"
    /\ pc = Idle
    /\ Len(runs) < MaxRuns
    /\ LET scraped(r, stem) ==
               IF r.raised
               THEN /\ ret' = [op |-> "scrape_county", raised |-> TRUE, county |-> county]
                    /\ runs' = Append(runs, [cmd |-> "failed"])
                    /\ files' = files
               ELSE /\ ret' = [op |-> "scrape_county", raised |-> FALSE, county |-> county]
                    /\ files' = write_json(files, stem, r.facilities)
                    /\ runs' = Append(runs, [cmd |-> "county"])
       IN scraped(ccld_scrape_county(input, county, input.include_details, now),
                  IF IsNull(output) THEN ccld_county_file(county) ELSE output[1])
    /\ UNCHANGED <<prog, summary, now, input, pc, processed>>

\* main with --generate-summary (lines 482-491)
CCLDGenerateSummary ==
    /\ prog = "ccld"
    /\ pc = Idle
    /\ Len(runs) < MaxRuns
    /\ \E order \in ListDirOrders(files) :
        LET generated(r) ==
                IF r.raised
                THEN /\ ret' = [op |-> "generate_summary", raised |-> TRUE]
                     /\ runs' = Append(runs, [cmd |-> "failed"])
                     /\ summary' = summary
                ELSE /\ ret' = [op |-> "generate_summary", raised |-> FALSE]
                     /\ summary' = r.summary
                     /\ runs' = Append(runs, [cmd |-> "summary"])
        IN generated(generate_summary(files, order, now))
    /\ UNCHANGED <<prog, files, now, input, pc, processed>>

NextCCLD ==
    \/ Tick
    \/ CCLDBeginAll
    \/ CCLDCounty
    \/ CCLDFinishAll
    \/ \E county \in SingleCounties, output \in SingleOutputs : CCLDSingle(county, output)
    \/ CCLDGenerateSummary

SpecCCLD == InitCCLD /\ [][NextCCLD]_vars

----------------------------------------------------------------------------
(* search_facilities as a program of its own: prog = "search".  The server  *)
(* answers each request as it likes; pc holds the position of the loop.     *)

MaxPages == 3       \* most pages a search requests

\* the items of the answers: a capacity that is a number, absent, a string of
\* digits, and a string that is no number
SearchItems ==
    { [FacilityNumber |-> "1", FacilityCapacity |-> Some(30)],
      [FacilityNumber |-> "2"],
      [FacilityNumber |-> "3", FacilityCapacity |-> JsonText(<<"4", "0">>)],
      [FacilityNumber |-> "4", FacilityCapacity |-> JsonText(<<"N", "/", "A">>)] }

\* the answers of the server to a request
SearchResponses ==
    {[raises |-> TRUE], [status |-> 500], EmptyPage}
    \cup [status : {200}, Data : SeqsUpTo(SearchItems, 2) \ {<<>>},
          TotalRecords : {150, 250}]
    \cup [status : {200}, Data : {<<item>> : item \in SearchItems}]

\* search_facilities("Alameda", "220", "CHILD CARE CENTER") is entered (lines 141-146)
InitSearch ==
    /\ prog = "search"
    /\ pc = [run |-> "search", page |-> 1,
             acc |-> [facilities |-> <<>>, requested |-> <<>>, errors |-> 0],
             served |-> <<>>]
    /\ input = [county |-> "Alameda", facility_type_name |-> "CHILD CARE CENTER"]
    /\ files = EmptyDict
    /\ summary = NoFile
    /\ now = 0
    /\ ret = [op |-> "none"]
    /\ runs = <<>>
    /\ processed = {}

\* one iteration of the loop (lines 148-210): the request for pc.page is
\* answered; the function returns when the loop is left (line 212)
SearchPage ==
    /\ prog = "search"
    /\ pc.run = "search"
    /\ pc.page <= MaxPages
    /\ \E response \in SearchResponses :
        LET answered(r, served) ==
                IF r.done
                THEN /\ pc' = Idle
                     /\ ret' = [op |-> "search_facilities", facilities |-> r.facilities,
                                requested |-> r.requested, errors |-> r.errors,
                                served |-> served]
                ELSE /\ pc' = [run |-> "search", page |-> pc.page + 1,
                               acc |-> [facilities |-> r.facilities,
                                        requested |-> r.requested,
                                        errors |-> r.errors],
                               served |-> served]
                     /\ ret' = ret
        IN answered(ccld_search_page(response, input.county, input.facility_type_name,
                                     pc.page, pc.acc),
                    Append(pc.served, response))
    /\ UNCHANGED <<prog, files, summary, now, input, runs, processed>>

NextSearch == SearchPage

SpecSearch == InitSearch /\ [][NextSearch]_vars

\* the loop is sequential code: while it has not been left, its next
\* iteration is run
SpecSearchFair == SpecSearch /\ WF_vars(SearchPage)

----------------------------------------------------------------------------
(* scrape_minnesota_dhs.py *)

\* An excerpt of MINNESOTA_COUNTIES (lines 28-42), in the order of the list.
MINNESOTA_COUNTIES == <<"Aitkin", "Hennepin", "Ramsey", "St. Louis", "Stearns">>

\* FACILITY_TYPES (lines 45-49): <<name, code>>
DHS_FACILITY_TYPES ==
    << <<"Child Care Center", "CCC">>, <<"Family Child Care", "FCC">> >>

\* The DHS site of the model.  server.db lists the rows of its result tables:
\* a row is shown by the search of its County with the FacilityType parameter
\* Listing ("" is the search without the parameter), in the order of
\* server.db.  cells holds the texts of the row's td cells as _clean_text
\* gives them, href the target of the row's link (Null: the row has none).
\* An entry with raises makes the request of that search raise a
\* RequestException.  server.pages maps a detail url to its page:
\* [raises |-> TRUE], or the capacity and license status found on the page
\* (Null: the page does not show it).

\* _parse_facility_row (lines 115-145): Null, or Some(facility); address, city
\* and zip_code, which no operation of the model reads, are left out
parse_facility_row(row, clock) ==
    IF Len(row.cells) < 4 THEN Null
    ELSE LET facility == [license_number |-> row.cells[1],
                          name |-> row.cells[2],
                          facility_type |-> row.cells[3],
                          county |-> "",
                          capacity |-> Null,
                          license_status |-> "",
                          scraped_at |-> clock]
         IN Some(IF IsNull(row.href) THEN facility
                 ELSE Put(facility, "detail_url", row.href[1]))

\* MinnesotaDHSScraper.search_facilities (lines 68-113)
dhs_search_facilities(server, county, facility_type, clock) ==
    LET listed(e) == e.County = county /\ e.Listing = facility_type
        answer == SelectSeq(server.db, listed)
        parsed(e) == ~IsNull(parse_facility_row(e, clock))
    IN IF \E i \in 1..Len(answer) : "raises" \in DOMAIN answer[i]
       THEN <<>>
       ELSE LET rows == SelectSeq(answer, parsed)
            IN [i \in 1..Len(rows) |-> parse_facility_row(rows[i], clock)[1]]

\* MinnesotaDHSScraper.get_facility_details (lines 147-206)
dhs_get_facility_details(server, facility) ==
    IF "detail_url" \notin DOMAIN facility THEN facility
    ELSE LET page == server.pages[facility.detail_url] IN
         IF "raises" \in DOMAIN page THEN facility
         ELSE LET f1 == IF IsNull(page.capacity) THEN facility
                        ELSE Put(facility, "capacity", page.capacity)
              IN IF IsNull(page.license_status) THEN f1
                 ELSE Put(f1, "license_status", page.license_status[1])

\* lines 223-235: the facilities of the searches for the types from the t-th on
RECURSIVE dhs_typed_searches(_, _, _, _, _)
dhs_typed_searches(server, county, get_details, clock, t) ==
    IF t > Len(DHS_FACILITY_TYPES) THEN <<>>
    ELSE LET found(facilities) ==
                 IF get_details
                 THEN [i \in 1..Len(facilities) |->
                          dhs_get_facility_details(server,
                                                   Put(facilities[i], "county", county))]
                 ELSE facilities
         IN found(dhs_search_facilities(server, county, DHS_FACILITY_TYPES[t][2], clock))
            \o dhs_typed_searches(server, county, get_details, clock, t + 1)

\* scrape_county without the check against existing_ids: every facility of the
\* untyped search is added
dhs_scrape_county_all(server, county, get_details, clock) ==
    LET added(all_facilities, new) ==
            all_facilities \o
            [i \in 1..Len(new) |->
                IF get_details
                THEN dhs_get_facility_details(server, Put(new[i], "county", county))
                ELSE Put(new[i], "county", county)]
    IN added(dhs_typed_searches(server, county, get_details, clock, 1),
             dhs_search_facilities(server, county, "", clock))

\* MinnesotaDHSScraper.scrape_county (lines 214-251)
dhs_scrape_county(server, county, get_details, clock) ==
    LET added(all_facilities, new) ==
            all_facilities \o
            [i \in 1..Len(new) |->
                IF get_details
                THEN dhs_get_facility_details(server, Put(new[i], "county", county))
                ELSE Put(new[i], "county", county)]
        deduplicated(all_facilities, general_facilities, existing_ids) ==
            LET is_new(facility) == facility.license_number \notin existing_ids
            IN added(all_facilities, SelectSeq(general_facilities, is_new))
        searched(all_facilities) ==
            deduplicated(all_facilities,
                         dhs_search_facilities(server, county, "", clock),
                         {all_facilities[i].license_number : i \in 1..Len(all_facilities)})
    IN searched(dhs_typed_searches(server, county, get_details, clock, 1))

\* MinnesotaDHSScraper.save_county_data (lines 253-272): the directory afterwards
save_county_data(dir, county, facilities, clock) ==
    Put(dir, Replace(Lower(Str(county)), <<" ">>, <<"_">>),
        [kind |-> "dict", county |-> county, state |-> "Minnesota",
         generated_at |-> clock, total_facilities |-> Len(facilities),
         facilities |-> facilities])

\* f.get("capacity", 0) or 0 (line 287)
dhs_capacity(f) ==
    LET c == Get(f, "capacity", Some(0)) IN IF IsNull(c) THEN 0 ELSE c[1]

\* MinnesotaDHSScraper.generate_summary (lines 274-313): the summary written
dhs_generate_summary(county_data, clock) ==
    [state |-> "Minnesota",
     generated_at |-> clock,
     total_counties_scraped |-> Cardinality(DOMAIN county_data),
     total_facilities |->
        SumOver([c \in DOMAIN county_data |-> Len(county_data[c])], DOMAIN county_data),
     counties |->
        [c \in DOMAIN county_data |->
            LET facilities == county_data[c] IN
            [total_facilities |-> Len(facilities),
             total_capacity |->
                SumSeq([i \in 1..Len(facilities) |-> dhs_capacity(facilities[i])]),
             by_type |-> CountBy(facilities, 1, "facility_type", "Unknown", EmptyDict),
             by_status |-> CountBy(facilities, 1, "license_status", "Unknown", EmptyDict)]]]

----------------------------------------------------------------------------
(* The MN DHS scraper as a program: prog = "dhs" *)

MaxListed == 2      \* most rows in the result tables of the DHS site

\* The result rows of the model, all of Hennepin County: facility 1001 (with a
\* detail link) under either type and in the untyped search, facility 1002
\* (no link) in the untyped search only, a row with too few cells, and an
\* untyped search whose request fails.
DHSRow1 == [cells |-> <<"1001", "A", "Child Care Center", "1 Main St">>, href |-> Some("u1")]
DHSRow2 == [cells |-> <<"1002", "B", "Family Child Care", "2 Main St">>, href |-> Null]
DHSRow3 == [cells |-> <<"1003", "C">>, href |-> Null]

DHSListed(row, listing) ==
    [County |-> "Hennepin", Listing |-> listing, cells |-> row.cells, href |-> row.href]

DHSEntries ==
    { DHSListed(DHSRow1, "CCC"), DHSListed(DHSRow1, "FCC"), DHSListed(DHSRow1, ""),
      DHSListed(DHSRow2, ""), DHSListed(DHSRow3, "CCC"),
      [County |-> "Hennepin", Listing |-> "", raises |-> TRUE] }

DHSPages == [url \in {"u1"} |-> [capacity |-> Some(40), license_status |-> Some("Active")]]

\* the --county / --all-counties choices of the model's runs
DHSCountyLists == {MINNESOTA_COUNTIES, <<"Hennepin">>}

InitDHS ==
    /\ prog = "dhs"
    /\ input \in [db : SeqsUpTo(DHSEntries, MaxListed), pages : {DHSPages},
                  get_details : BOOLEAN]
    /\ files = EmptyDict
    /\ summary = NoFile
    /\ now = 0
    /\ ret = [op |-> "none"]
    /\ pc = Idle
    /\ runs = <<>>
    /\ processed = {}

\* main up to the county loop (lines 349-365); a run that was interrupted is
\* the last run the model follows
DHSBegin(counties_to_scrape) ==
    /\ prog = "dhs"
    /\ pc = Idle
    /\ Len(runs) < MaxRuns
    /\ ~Get(ret, "interrupted", FALSE)
    /\ pc' = [run |-> "dhs", i |-> 1, counties_to_scrape |-> counties_to_scrape,
              county_data |-> EmptyDict, interrupted |-> FALSE]
    /\ ret' = [op |-> "main"]
    /\ UNCHANGED <<prog, files, summary, now, input, runs, processed>>

\* one iteration of the county loop of main (lines 367-371)
DHSCounty ==
    /\ prog = "dhs"
    /\ pc.run = "dhs"
    /\ pc.i <= Len(pc.counties_to_scrape)
    /\ LET scraped(county, facilities) ==
               /\ pc' = [pc EXCEPT !.i = @ + 1,
                                   !.county_data = Put(@, county, facilities)]
               /\ files' = save_county_data(files, county, facilities, now)
               /\ ret' = [op |-> "dhs_scrape_county", county |-> county,
                          facilities |-> facilities]
       IN scraped(pc.counties_to_scrape[pc.i],
                  dhs_scrape_county(input, pc.counties_to_scrape[pc.i],
                                    input.get_details, now))
    /\ UNCHANGED <<prog, summary, now, input, runs, processed>>

\* KeyboardInterrupt in an iteration of the county loop (lines 378-380): the
\* loop is left.  The interrupt is raised in scrape_county (line 369), or in
\* save_county_data before the file is written, county_data[county] being
\* set (lines 370-371), or after the file is written, in the sleep between
\* two counties of an all-counties run (lines 373-376).
DHSInterrupt(at) ==
    /\ prog = "dhs"
    /\ pc.run = "dhs"
    /\ pc.i <= Len(pc.counties_to_scrape)
    /\ at = "sleep" =>
          pc.counties_to_scrape = MINNESOTA_COUNTIES /\ pc.i < Len(pc.counties_to_scrape)
    /\ LET interrupted(county, facilities) ==
               /\ pc' = [pc EXCEPT !.i = Len(pc.counties_to_scrape) + 1,
                                   !.county_data = IF at = "scrape_county" THEN @
                                                   ELSE Put(@, county, facilities),
                                   !.interrupted = TRUE]
               /\ files' = IF at = "sleep"
                           THEN save_county_data(files, county, facilities, now)
                           ELSE files
               /\ ret' = [op |-> "KeyboardInterrupt", county |-> county, at |-> at]
       IN interrupted(pc.counties_to_scrape[pc.i],
                      dhs_scrape_county(input, pc.counties_to_scrape[pc.i],
                                        input.get_details, now))
    /\ UNCHANGED <<prog, summary, now, input, runs, processed>>

\* lines 385-387: after the loop, generate_summary when county_data is not empty
DHSFinish ==
    /\ prog = "dhs"
    /\ pc.run = "dhs"
    /\ pc.i > Len(pc.counties_to_scrape)
    /\ summary' = IF pc.county_data # EmptyDict
                  THEN dhs_generate_summary(pc.county_data, now)
                  ELSE summary
    /\ ret' = [op |-> "dhs_generate_summary", county_data |-> pc.county_data,
               interrupted |-> pc.interrupted]
    /\ runs' = Append(runs, [cmd |-> "dhs"])
    /\ pc' = Idle
    /\ UNCHANGED <<prog, files, now, input, processed>>

\* (the clock is not advanced in this program: its runs are compared by
\* their facilities and counts, not by their time stamps)
NextDHS ==
    \/ \E counties_to_scrape \in DHSCountyLists : DHSBegin(counties_to_scrape)
    \/ DHSCounty
    \/ \E at \in {"scrape_county", "save_county_data", "sleep"} : DHSInterrupt(at)
    \/ DHSFinish

SpecDHS == InitDHS /\ [][NextDHS]_vars

----------------------------------------------------------------------------
(* process-maryland.py *)

\* A row of a table of the PDF is the sequence of its cells; a cell is Null
\* (None) or Some(text), and Text is "cell or ''" as characters.
Text(cell) == IF IsNull(cell) THEN <<>> ELSE Str(cell[1])

\* lines 28-65 on one row: Null when the row is skipped, or Some(provider)
md_provider(row, target_county) ==
    IF Len(row) < 7 THEN Null
    ELSE IF row[1] = Some("Provider Names") \/ Text(row[1]) = <<>> THEN Null
    ELSE LET provider(name, address, county, school, prog_type, status) ==
                 IF ~Contains(Lower(Str(target_county)), Lower(county)) THEN Null
                 ELSE IF name = <<>> \/ prog_type = <<>> \/ status = <<>> THEN Null
                 ELSE Some([name |-> name,
                            address |-> address,
                            county |-> target_county,
                            school |-> IF school # <<>>
                                       THEN Some(Strip(Replace(school, <<"\n">>, <<" ">>)))
                                       ELSE Null,
                            facility_type |-> Strip(prog_type),
                            status |-> Strip(status),
                            state |-> "MD"])
         IN provider(Strip(Replace(Text(row[1]), <<"\n">>, <<" ">>)),
                     Strip(Replace(Text(row[3]), <<"\n">>, <<" ">>)),
                     Strip(Replace(Text(row[4]), <<"\n">>, <<" ">>)),
                     Text(row[5]), Text(row[6]), Text(row[7]))

\* extract_maryland_providers (lines 12-67) over the rows of the tables
extract_maryland_providers(rows, target_county) ==
    LET kept(row) == ~IsNull(md_provider(row, target_county))
        used == SelectSeq(rows, kept)
    IN [i \in 1..Len(used) |-> md_provider(used[i], target_county)[1]]

\* type_map and status_map (lines 83-97)
type_map ==
    [k \in {"CTR", "FCCH", "LFCCH", "LOC"} |->
        CASE k = "CTR" -> "Child Care Center"
          [] k = "FCCH" -> "Family Child Care Home"
          [] k = "LFCCH" -> "Large Family Child Care Home"
          [] k = "LOC" -> "Letter of Compliance"]
status_map ==
    [k \in {"Open", "Closed", "Suspended", "Revoked"} |->
        CASE k = "Open" -> "LICENSED"
          [] k = "Closed" -> "CLOSED"
          [] k = "Suspended" -> "SUSPENDED"
          [] k = "Revoked" -> "REVOKED"]

\* map.get(text, text)
MapGet(map, t) ==
    IF \E k \in DOMAIN map : Str(k) = t
    THEN Str(map[CHOOSE k \in DOMAIN map : Str(k) = t])
    ELSE t

\* line 77: the key for deduplication
md_key(p) == <<Lower(p.name), Lower(p.address)>>

\* clean_and_dedupe (lines 70-102) from the i-th provider on
RECURSIVE md_dedupe_loop(_, _, _, _)
md_dedupe_loop(providers, i, seen, cleaned) ==
    IF i > Len(providers) THEN cleaned
    ELSE LET p == providers[i]
             key == md_key(p)
         IN IF key \notin seen
            THEN md_dedupe_loop(providers, i + 1, seen \cup {key},
                     Append(cleaned,
                            [p EXCEPT !.facility_type = MapGet(type_map, @),
                                      !.status = MapGet(status_map, @)]))
            ELSE md_dedupe_loop(providers, i + 1, seen, cleaned)

\* clean_and_dedupe without the seen set: every provider is cleaned and kept
clean_keep_all(providers) ==
    [i \in 1..Len(providers) |->
        [providers[i] EXCEPT !.facility_type = MapGet(type_map, @),
                             !.status = MapGet(status_map, @)]]

clean_and_dedupe(providers) == md_dedupe_loop(providers, 1, {}, <<>>)

\* the decimal digits of n, and f"{n:04d}"
Digit == [d \in 0..9 |-> <<"0", "1", "2", "3", "4", "5", "6", "7", "8", "9">>[d + 1]]
RECURSIVE Decimal(_)
Decimal(n) == IF n < 10 THEN <<Digit[n]>> ELSE Decimal(n \div 10) \o <<Digit[n % 10]>>
RECURSIVE Pad04(_)
Pad04(t) == IF Len(t) >= 4 THEN t ELSE Pad04(<<"0">> \o t)

\* re.search(r'([^,]+),\s*MD\s+(\d{5})', address) (line 137): Null, or
\* Some(<<group 1, group 2>>).  A match starts at the first character s that
\* is not a comma and is followed, after the first comma at c, by blanks, MD,
\* at least one blank and five digits.
SkipWs(t, p) ==
    IF \E q \in p..Len(t) : t[q] \notin Whitespace
    THEN CHOOSE q \in p..Len(t) :
             t[q] \notin Whitespace /\ \A k \in p..(q - 1) : t[k] \in Whitespace
    ELSE Len(t) + 1
md_search(t) ==
    LET tail(c) ==
            LET p == SkipWs(t, c + 1)
                r == SkipWs(t, p + 2)
            IN /\ p + 1 <= Len(t) /\ t[p] = "M" /\ t[p + 1] = "D"
               /\ r > p + 2 /\ r + 4 <= Len(t)
               /\ \A k \in r..(r + 4) : t[k] \in {Digit[d] : d \in 0..9}
        comma(s) == CHOOSE c \in s..Len(t) :
                        t[c] = "," /\ \A k \in s..(c - 1) : t[k] # ","
        starts == {s \in 1..Len(t) :
                      /\ t[s] # ","
                      /\ \E c \in s..Len(t) : t[c] = ","
                      /\ tail(comma(s))}
    IN IF starts = {} THEN Null
       ELSE LET s == CHOOSE x \in starts : \A y \in starts : x <= y
                c == comma(s)
                r == SkipWs(t, SkipWs(t, c + 1) + 2)
            IN Some(<<SubSeq(t, s, c - 1), SubSeq(t, r, r + 4)>>)

\* lines 125-140: the placeholder fields of the i-th cleaned provider
md_placeholders(p, i) ==
    LET filled(match) ==
            [license_number |-> Str("MD-MONT-") \o Pad04(Decimal(i)),
             capacity |-> Null, phone |-> Null, latitude |-> Null, longitude |-> Null,
             city |-> IF IsNull(match) THEN Null ELSE Some(Strip(match[1][1])),
             zip_code |-> IF IsNull(match) THEN Null ELSE Some(match[1][2])] @@ p
    IN filled(IF p.address # <<>> THEN md_search(p.address) ELSE Null)

----------------------------------------------------------------------------
(* The Maryland roster processor as a program: prog = "md" *)

MaxPdfRows == 2     \* most rows in the tables of the PDF

PdfRows ==
    { <<Some("Kid Co"), Null, Some("1 Main St, Rockville, MD 20850"),
        Some("Montgomery"), Null, Some("CTR"), Some("Open")>>,
      <<Some("KID CO"), Null, Some("1 Main St, Rockville, MD 20850"),
        Some("Montgomery"), Some("Elm School"), Some("FCCH"), Some("Closed")>>,
      <<Some(" Kid\nCare "), Null, Null,
        Some("MONTGOMERY"), Some("Elm School"), Some("LOC "), Some("Pending")>>,
      <<Some("Kid Co"), Null, Null, Some("Howard"), Null, Some("CTR"), Some("Open")>>,
      <<Some("Provider Names"), Null, Null, Null, Null, Null, Null>>,
      <<Some("Kid Co"), Null, Null>> }

InitMD ==
    /\ prog = "md"
    /\ input \in SeqsUpTo(PdfRows, MaxPdfRows)
    /\ files = EmptyDict
    /\ summary = NoFile
    /\ now = 0
    /\ ret = [op |-> "none"]
    /\ pc = Idle
    /\ runs = <<>>
    /\ processed = {}

\* main of process-maryland.py (lines 105-162)
MDMain ==
    /\ prog = "md"
    /\ Len(runs) < MaxRuns
    /\ LET saved(providers, cleaned) ==
               /\ files' = write_json(files, Str("montgomery"), cleaned)
               /\ ret' = [op |-> "md_main", providers |-> providers,
                          by_type |-> CountBy(cleaned, 1, "facility_type", <<>>, EmptyDict),
                          by_status |-> CountBy(cleaned, 1, "status", <<>>, EmptyDict)]
           placed(providers, deduped) ==
               saved(providers,
                     [i \in 1..Len(deduped) |-> md_placeholders(deduped[i], i)])
           extracted(providers) == placed(providers, clean_and_dedupe(providers))
       IN extracted(extract_maryland_providers(input, "Montgomery"))
    /\ runs' = Append(runs, [cmd |-> "md"])
    /\ UNCHANGED <<prog, summary, now, input, pc, processed>>

NextMD == MDMain

SpecMD == InitMD /\ [][NextMD]_vars

----------------------------------------------------------------------------
(* One raw row normalised: prog = "normalize".  The row's city is resolved  *)
(* as the conversion resolves it and its type is given to the estimator.    *)

NormalizeCities ==
    { Null, Some(""), Some(" "), Some("Minneapolis"), Some("minneapolis"),
      Some(" Duluth "), Some("Duluth."), Some("Duluth,"), Some("St. Paul"),
      Some("ST PAUL"), Some("St. Joseph"), Some("st joseph"), Some("St.Joseph"),
      Some("MCGREGOR"), Some("Nowhere"), Some("Hennepin") }

NormalizeTypes ==
    { "Child Care Center", "child care center", "Family Child Care",
      "Group Family Day Care", "School-Age", "Head Start", "Early Head Start",
      "default", "", "Unknown", "Day Care Center", "Group Family Home",
      "Family Home", "School Program", "Teenage Club", "Early Head Start Program",
      "Head Start Program", "Certified CENTER", "Early Learning", "Family Center" }

InitNormalize ==
    /\ prog = "normalize"
    /\ input \in [License_Number : {"101"}, Name_of_Program : {"A"},
                   License_Type : NormalizeTypes, City : NormalizeCities]
    /\ files = EmptyDict
    /\ summary = NoFile
    /\ now = 0
    /\ ret = [op |-> "none"]
    /\ pc = Idle
    /\ runs = <<>>
    /\ processed = {}

\* lines 652-684 of the conversion on the row: get_county_from_city(city) and
\* the county the row's facility is filed under
ResolveCounty ==
    /\ prog = "normalize"
    /\ ret' = [op |-> "get_county_from_city",
               county |-> get_county_from_city(input.City),
               filed |-> gpkg_loop(<<input>>, 1,
                                   [unknown_cities |-> EmptyDict,
                                    facilities_by_county |-> EmptyDict], now)]
    /\ UNCHANGED <<prog, files, summary, now, input, pc, runs, processed>>

\* line 108 of the estimator on the row's type
EstimateCapacity ==
    /\ prog = "normalize"
    /\ ret' = [op |-> "get_estimated_capacity",
               capacity |-> get_estimated_capacity(input.License_Type)]
    /\ UNCHANGED <<prog, files, summary, now, input, pc, runs, processed>>

NextNormalize ==
    \/ ResolveCounty
    \/ EstimateCapacity

SpecNormalize == InitNormalize /\ [][NextNormalize]_vars

----------------------------------------------------------------------------
(* Claims about the capacity estimator *)

\* C1: capacity estimation never replaces a source-provided capacity: every
\* facility whose capacity in the input file is a non-null integer >= 0
\* (0 included) has the same capacity after any runs of the estimator, and
\* capacity_estimated is not set to true on it.
C1_SourceCapacityNeverReplaced ==
    prog = "estimate" =>
        \A f \in DOMAIN files :
            IsList(input[f]) =>
                \A i \in 1..Len(input[f].items) :
                    LET supplied == Get(input[f].items[i], "capacity", Null) IN
                    (~IsNull(supplied) /\ supplied[1] >= 0) =>
                        /\ Get(files[f].items[i], "capacity", Null) = supplied
                        /\ Get(files[f].items[i], "capacity_estimated", FALSE) # TRUE

\* C4: re-running capacity estimation is idempotent: process_county_file on a
\* file a real run has already processed changes nothing in the directory and
\* reports updated = 0 (and a whole run over an already processed directory
\* reports facilities_updated = 0).
C4_RerunIdempotent ==
    /\ (ret.op = "process_county_file" /\ ret.rerun) =>
            ~ret.changed /\ ret.stats.updated = 0
    /\ (ret.op = "main" /\ ret.rerun) =>
            ~ret.changed /\ ret.stats.facilities_updated = 0

\* a real second run over a file whose first run wrote an estimate
C4_Witness ==
    /\ ret.op = "process_county_file" /\ ret.rerun /\ ~ret.dry_run
    /\ IsList(files[ret.filepath])
    /\ \E i \in 1..Len(files[ret.filepath].items) :
           /\ Get(files[ret.filepath].items[i], "capacity_estimated", FALSE) = TRUE
           /\ IsNull(Get(input[ret.filepath].items[i], "capacity", Null))

----------------------------------------------------------------------------
(* The programs taken together *)

\* the geopackage conversion and the CCLD scraper: the pipelines that are run
\* again on the same raw input
SpecPipeline == (InitConvert \/ InitCCLD) /\ [][NextConvert \/ NextCCLD]_vars

\* the two scrapers with a summary generator
SpecSummaries == (InitCCLD \/ InitDHS) /\ [][NextCCLD \/ NextDHS]_vars

----------------------------------------------------------------------------
(* Claims about the scrapers, the conversion and the summaries *)

\* C2: the facilities returned by MinnesotaDHSScraper.scrape_county never
\* hold two records with the same license_number, whatever the per-type
\* searches and the untyped search return.
C2_NoDuplicateLicense ==
    ret.op = "dhs_scrape_county" =>
        \A i, j \in 1..Len(ret.facilities) :
            i # j => ret.facilities[i].license_number # ret.facilities[j].license_number

\* two successive complete runs of a pipeline (same raw input: the rows, or
\* the server's database, do not change in a behaviour)
TwoRuns(i) == runs[i].cmd = "all" /\ runs[i + 1].cmd = "all"

\* a facility file and a summary without their time stamps
WithoutScrapedAt(dir) ==
    [stem \in DOMAIN dir |->
        [i \in 1..Len(dir[stem].items) |->
            [k \in DOMAIN dir[stem].items[i] \ {"scraped_at"} |-> dir[stem].items[i][k]]]]
WithoutGeneratedAt(sum) == [k \in DOMAIN sum \ {"generated_at"} |-> sum[k]]

\* C3 (as claimed): two successive runs of the pipeline on the same raw input
\* leave the same facility files and the same summary in every field,
\* scraped_at and generated_at included.
C3_IdenticalInEveryField ==
    \A i \in 1..(Len(runs) - 1) :
        TwoRuns(i) =>
            /\ runs[i].files = runs[i + 1].files
            /\ runs[i].summary = runs[i + 1].summary

\* C3 (amended): two successive runs of the pipeline on the same raw input
\* leave the same facility files and the same summary in every field but
\* scraped_at and generated_at, and no file grows.
C3_IdenticalButTimeStamps ==
    \A i \in 1..(Len(runs) - 1) :
        TwoRuns(i) =>
            /\ WithoutScrapedAt(runs[i].files) = WithoutScrapedAt(runs[i + 1].files)
            /\ WithoutGeneratedAt(runs[i].summary) = WithoutGeneratedAt(runs[i + 1].summary)
            /\ \A stem \in DOMAIN runs[i].files :
                   Len(runs[i + 1].files[stem].items) = Len(runs[i].files[stem].items)

\* two successive runs at different times that wrote a facility
C3_Witness ==
    \E i \in 1..(Len(runs) - 1) :
        /\ TwoRuns(i)
        /\ runs[i].summary.generated_at # runs[i + 1].summary.generated_at
        /\ \E stem \in DOMAIN runs[i].files :
               /\ runs[i].files[stem].items # <<>>
               /\ runs[i].files[stem].items # runs[i + 1].files[stem].items

\* sum over the entries of summary.counties of the number field (of a count
\* of by_type when type is not Null)
CountySum(sum, field, type) ==
    SumOver([c \in DOMAIN sum.counties |->
                IF IsNull(type) THEN sum.counties[c][field]
                ELSE Get(sum.counties[c].by_type, type[1], 0)],
            DOMAIN sum.counties)

\* C5: the summary of generate_summary is additive: totals.facilities,
\* totals.capacity and every totals.by_type[t] are the sums of the entries of
\* summary.counties (and in the MN generator total_facilities is the sum of
\* the counties' total_facilities).
C5_StatewideAdditivity ==
    /\ (ret.op = "generate_summary" /\ ~ret.raised) =>
          /\ summary.totals.facilities = CountySum(summary, "total_facilities", Null)
          /\ summary.totals.capacity = CountySum(summary, "total_capacity", Null)
          /\ \A t \in DOMAIN summary.totals.by_type :
                 summary.totals.by_type[t] = CountySum(summary, "by_type", Some(t))
    /\ (ret.op = "dhs_generate_summary" /\ ret.county_data # EmptyDict) =>
          summary.total_facilities = CountySum(summary, "total_facilities", Null)

\* number of the facilities whose field key (default when absent) is v
Having(facilities, key, default, v) ==
    Cardinality({i \in 1..Len(facilities) : Get(facilities[i], key, default) = v})

\* the entry of a per-county summary partitions the collection facilities
Partitions(entry, facilities, status_key) ==
    /\ entry.total_facilities = Len(facilities)
    /\ SumOver(entry.by_type, DOMAIN entry.by_type) = Len(facilities)
    /\ SumOver(entry.by_status, DOMAIN entry.by_status) = Len(facilities)
    /\ \A t \in DOMAIN entry.by_type :
           entry.by_type[t] = Having(facilities, "facility_type", "Unknown", t)
    /\ \A s \in DOMAIN entry.by_status :
           entry.by_status[s] = Having(facilities, status_key, "Unknown", s)

\* C6: in every per-county summary of generate_summary (CA and MN) the
\* by_type counts and the by_status counts partition the county's collection:
\* each bucket counts the facilities of its type (status), and the counts sum
\* to total_facilities, the number of facilities of the collection.
C6_HistogramsPartition ==
    /\ (ret.op = "generate_summary" /\ ~ret.raised) =>
          \A c \in DOMAIN summary.counties :
              \E stem \in DOMAIN files :
                  /\ ccld_county_name(stem) = c
                  /\ Partitions(summary.counties[c], files[stem].items, "status")
    /\ (ret.op = "dhs_generate_summary" /\ ret.county_data # EmptyDict) =>
          /\ DOMAIN summary.counties = DOMAIN ret.county_data
          /\ \A c \in DOMAIN summary.counties :
                 Partitions(summary.counties[c], ret.county_data[c], "license_status")

\* a county summary of two facilities or more with a bucket of two
C6_Witness ==
    /\ ret.op = "generate_summary" /\ ~ret.raised
    /\ \E c \in DOMAIN summary.counties :
           /\ summary.counties[c].total_facilities >= 2
           /\ \E t \in DOMAIN summary.counties[c].by_type :
                  summary.counties[c].by_type[t] >= 2

\* C7: the summary the geopackage conversion writes agrees with the county
\* files of the same run: each county entry's total_facilities is the number
\* of facilities in the county's file and its by_type counts sum to it.
C7_ConversionSummaryConsistent ==
    ret.op = "convert" =>
        \A c \in DOMAIN summary.counties :
            LET entry == summary.counties[c]
                facilities == files[county_file(c)].items
            IN /\ entry.total_facilities = Len(facilities)
               /\ SumOver(entry.by_type, DOMAIN entry.by_type) = entry.total_facilities

\* the sum of the capacities of facilities, null or absent counted as 0
CapacitySum(facilities) ==
    SumSeq([i \in 1..Len(facilities) |->
               LET c == Get(facilities[i], "capacity", Null)
               IN IF IsNull(c) THEN 0 ELSE c[1]])

\* C8: after a full capacity-estimation run (process_directory, then
\* update_summary) each county's total_capacity in summary.json is the sum of
\* the capacities now stored in the county's facility file.
C8_SummaryCapacityFollowsFiles ==
    (prog = "convert" /\ ret.op = "main" /\ ~ret.dry_run /\ summary # NoFile) =>
        \A c \in DOMAIN summary.counties :
            summary.counties[c].total_capacity
                = Some(CapacitySum(files[county_file(c)].items))

\* C9: every summary generator completes on a collection with null
\* capacities, and a county's total_capacity is the sum of the capacities of
\* its facilities, a null or absent capacity counted as 0.
C9_NullCapacityCountsZero ==
    /\ ret.op = "generate_summary" =>
          /\ ~ret.raised
          /\ \A c \in DOMAIN summary.counties :
                 \E stem \in DOMAIN files :
                     /\ ccld_county_name(stem) = c
                     /\ summary.counties[c].total_capacity
                            = CapacitySum(files[stem].items)
    /\ (ret.op = "dhs_generate_summary" /\ ret.county_data # EmptyDict) =>
          \A c \in DOMAIN summary.counties :
              summary.counties[c].total_capacity = CapacitySum(ret.county_data[c])

\* C10: when two providers collide on the key of clean_and_dedupe and the
\* first has a null field (school) where a later one has a value, the record
\* kept in the output carries the value.
C10_NonNullWinsOverNull ==
    ret.op = "md_main" =>
        \A i, j \in 1..Len(ret.providers) :
            (/\ i < j
             /\ md_key(ret.providers[i]) = md_key(ret.providers[j])
             /\ IsNull(ret.providers[i].school)
             /\ ~IsNull(ret.providers[j].school)) =>
                \A k \in 1..Len(files[Str("montgomery")].items) :
                    md_key(files[Str("montgomery")].items[k]) = md_key(ret.providers[i])
                        => ~IsNull(files[Str("montgomery")].items[k].school)

----------------------------------------------------------------------------
(* Claims about the merge of colliding records *)

\* the providers the Maryland processor has written
Montgomery == files[Str("montgomery")].items

\* C11: when two records with the same identity key carry conflicting values
\* of a field (here the status of two providers with the same key), the value
\* of the newer, later processed record is the one in the output collection.
C11_NewerRecordWins ==
    ret.op = "md_main" =>
        \A i, j \in 1..Len(ret.providers) :
            (/\ i < j
             /\ md_key(ret.providers[i]) = md_key(ret.providers[j])
             /\ ret.providers[i].status # ret.providers[j].status
             /\ \A k \in (j + 1)..Len(ret.providers) :
                    md_key(ret.providers[k]) # md_key(ret.providers[j])) =>
                \A k \in 1..Len(Montgomery) :
                    md_key(Montgomery[k]) = md_key(ret.providers[j]) =>
                        Montgomery[k].status = MapGet(status_map, ret.providers[j].status)

\* C13: after clean_and_dedupe the output holds exactly one record for each
\* (lowercased name, lowercased address) key of the input: no two output
\* records share a key and no key of the input is missing.
C13_OneRecordPerKey ==
    ret.op = "md_main" =>
        /\ \A a, b \in 1..Len(Montgomery) :
               a # b => md_key(Montgomery[a]) # md_key(Montgomery[b])
        /\ {md_key(Montgomery[k]) : k \in 1..Len(Montgomery)}
               = {md_key(ret.providers[i]) : i \in 1..Len(ret.providers)}

\* two providers with the same key have collapsed to one record
C13_Witness ==
    /\ ret.op = "md_main"
    /\ Len(ret.providers) = 2
    /\ ret.providers[1].name # ret.providers[2].name
    /\ md_key(ret.providers[1]) = md_key(ret.providers[2])
    /\ Len(Montgomery) = 1

\* the facilities the typed searches of the last scrape_county collected, and
\* the facilities its untyped search returned
TypedFound == dhs_typed_searches(input, ret.county, input.get_details, now, 1)
UntypedFound == dhs_search_facilities(input, ret.county, "", now)

\* the records of facilities with license number n
Licensed(facilities, n) ==
    {i \in 1..Len(facilities) : facilities[i].license_number = n}

C16_CountyIsScrapedCounty ==
    ret.op = "dhs_scrape_county" =>
        \A i \in 1..Len(ret.facilities) : ret.facilities[i].county = ret.county

----------------------------------------------------------------------------
(* Claims about the estimation flag, the county resolver and the conversion *)

\* C14: capacity_estimated is true exactly on the facilities whose capacity
\* the source did not supply and the estimator filled: after any runs of the
\* estimator a facility with a capacity from the source is not marked, and
\* a facility whose capacity get_estimated_capacity filled is marked.
C14_EstimatedIffFilled ==
    prog = "estimate" =>
        \A f \in DOMAIN files :
            IsList(input[f]) =>
                \A i \in 1..Len(input[f].items) :
                    LET supplied == Get(input[f].items[i], "capacity", Null)
                        stored == Get(files[f].items[i], "capacity", Null)
                    IN Get(files[f].items[i], "capacity_estimated", FALSE) = TRUE
                           <=> (IsNull(supplied) /\ ~IsNull(stored))

\* the rows of the conversion whose city resolves to no county, and the name
\* under which such a row is recorded
Unresolved == {i \in 1..Len(input) : IsNull(get_county_from_city(input[i].City))}
RecordedName(i) ==
    IF IsNull(input[i].City) \/ input[i].City[1] = "" THEN Str("BLANK")
    ELSE Strip(Str(input[i].City[1]))

\* C18: after the conversion the table of unresolved names holds, for each
\* unresolved city name, the number of rows carrying it, and its counts sum
\* to the number of facilities assigned to the Unknown jurisdiction.
C18_UnresolvedRecorded ==
    ret.op = "convert" =>
        /\ DOMAIN ret.unknown_cities = {RecordedName(i) : i \in Unresolved}
        /\ \A n \in DOMAIN ret.unknown_cities :
               ret.unknown_cities[n]
                   = Cardinality({i \in Unresolved : RecordedName(i) = n})
        /\ SumOver(ret.unknown_cities, DOMAIN ret.unknown_cities)
               = Len(Get(ret.facilities_by_county, "Unknown", <<>>))

\* two rows carry the same unresolved city name
C18_Witness ==
    /\ ret.op = "convert"
    /\ \E n \in DOMAIN ret.unknown_cities : ret.unknown_cities[n] = 2

\* C19: no facility created from a row is deleted: every row the conversion
\* read is in a persisted county file (rows of the Unknown jurisdiction
\* included), the files hold as many facilities as rows were read, and the
\* summary's total_facilities is the number of rows read.
C19_NoRowDeleted ==
    ret.op = "convert" =>
        /\ \A i \in 1..Len(input) :
               \E stem \in DOMAIN files :
                   \E k \in 1..Len(files[stem].items) :
                       files[stem].items[k].license_number = input[i].License_Number
        /\ FacilityCount(files) = Len(input)
        /\ summary.total_facilities = Len(input)

\* the counties of the jurisdiction list, and the counties of the city table
Jurisdictions == {MINNESOTA_COUNTIES[i] : i \in 1..Len(MINNESOTA_COUNTIES)}
TableCounties == {CITY_TO_COUNTY[k] : k \in DOMAIN CITY_TO_COUNTY}

\* C15: the county given to the facility of a row is the Unknown sentinel or
\* a member of the Minnesota jurisdiction list: get_county_from_city returns
\* nothing or a value of the city table (never the input text), for every
\* city, the empty, blank and null ones included, and the values of the
\* table are counties of the list.
C15_CountyClosure ==
    ret.op = "get_county_from_city" =>
        /\ IsNull(ret.county) \/ ret.county[1] \in TableCounties
        /\ TableCounties \subseteq Jurisdictions
        /\ \A c \in DOMAIN ret.filed.facilities_by_county :
               /\ c \in Jurisdictions \cup {"Unknown"}
               /\ \A k \in 1..Len(ret.filed.facilities_by_county[c]) :
                      ret.filed.facilities_by_county[c][k].county = c
        /\ IsNull(ret.county) <=> "Unknown" \in DOMAIN ret.filed.facilities_by_county

\* a city text that is the name of a county but no key of the city table is
\* filed under Unknown, not under the text
C15_Witness ==
    /\ ret.op = "get_county_from_city"
    /\ input.City = Some("Hennepin")
    /\ IsNull(ret.county)
    /\ DOMAIN ret.filed.facilities_by_county = {"Unknown"}

\* the text without the characters of a set
Without(t, chars) ==
    LET kept(ch) == ch \notin chars IN SelectSeq(t, kept)

\* the text with a leading "St " or "St. " (in any case) replaced by "Saint "
\* and the rest title-cased
SaintExpanded(t) ==
    IF StartsWith(Upper(t), <<"S", "T", ".", " ">>)
    THEN <<"S", "a", "i", "n", "t", " ">> \o Title(SubSeq(t, 5, Len(t)))
    ELSE IF StartsWith(Upper(t), <<"S", "T", " ">>)
    THEN <<"S", "a", "i", "n", "t", " ">> \o Title(SubSeq(t, 4, Len(t)))
    ELSE t

\* the table entry of the first candidate that is a key of the city table
FirstMatch(candidates) ==
    IF \E n \in 1..Len(candidates) : InCityTable(candidates[n])
    THEN CityTable(candidates[CHOOSE n \in 1..Len(candidates) :
                                 /\ InCityTable(candidates[n])
                                 /\ \A m \in 1..(n - 1) : ~InCityTable(candidates[m])])
    ELSE Null

\* the fallback chain on a city: the trimmed text, the text without the
\* characters stripped, the title-cased text, the text with the saint prefix
FallbackChain(city, stripped) ==
    IF IsNull(city) THEN Null
    ELSE LET t == Strip(Str(city[1]))
         IN FirstMatch(<<t, Without(t, stripped), Title(t), SaintExpanded(t)>>)

\* C17 (as claimed): the resolver returns the table entry of the first of the
\* exact text, the text with punctuation stripped, the title-cased text and
\* the text with the saint prefix expanded that is a key of the city table,
\* and nothing when none is.
C17_ChainPunctuationStripped ==
    ret.op = "get_county_from_city" =>
        ret.county = FallbackChain(input.City, {".", ",", "-", "'"})

\* C17 (amended): as above, the second candidate being the text with its
\* periods removed (other punctuation is kept) and the saint prefix being a
\* leading "St " or "St. ".
C17_ChainPeriodsRemoved ==
    ret.op = "get_county_from_city" =>
        ret.county = FallbackChain(input.City, {"."})

\* a city that only the last candidate of the chain resolves
C17_Witness ==
    /\ ret.op = "get_county_from_city"
    /\ input.City = Some("St. Joseph")
    /\ ret.county = Some("Stearns")

\* the claimed estimate of a facility-type text: the table value on an exact
\* match, else the value of the first keyword test the lower-cased text
\* passes, else the default
ReferenceCapacity(facility_type) ==
    LET has(word) == Contains(Str(word), Lower(Str(facility_type)))
        tests == << <<has("center"), 75>>,
                    <<has("family") /\ has("group"), 14>>,
                    <<has("family"), 12>>,
                    <<has("school") \/ has("age"), 50>>,
                    <<has("head start") /\ has("early"), 20>>,
                    <<has("head start"), 60>>,
                    <<TRUE, 25>> >>
    IN IF facility_type \in DOMAIN CAPACITY_ESTIMATES
       THEN CAPACITY_ESTIMATES[facility_type]
       ELSE tests[CHOOSE n \in 1..Len(tests) :
                      tests[n][1] /\ \A m \in 1..(n - 1) : ~tests[m][1]][2]

\* C20: get_estimated_capacity is the reference function on every
\* facility-type text: the table value on an exact match, otherwise 75, 14,
\* 12, 50, 20 or 60 by the ordered keyword tests on the lower-cased text,
\* otherwise 25 (also for the empty text); "Child Care Center" gives 75.
C20_EstimatorIsReference ==
    /\ ret.op = "get_estimated_capacity" =>
           ret.capacity = ReferenceCapacity(input.License_Type)
    /\ (ret.op = "get_estimated_capacity" /\ input.License_Type = "Child Care Center") =>
           ret.capacity = 75

\* a text on which the order of the keyword tests decides
C20_Witness ==
    /\ ret.op = "get_estimated_capacity"
    /\ input.License_Type = "Group Family Home"
    /\ ret.capacity = 14

----------------------------------------------------------------------------
(* Claims about the runs of the capacity estimator *)

\* C21: a missing capacity is no error and is resolved by estimation with
\* the flag set: process_county_file completes on every facility list, and
\* after a real run every facility whose capacity was null (or absent) has
\* the capacity get_estimated_capacity gives for its type and
\* capacity_estimated = true, and every facility of the file has a non-null
\* positive capacity.
C21_MissingCapacityEstimated ==
    (ret.op = "process_county_file" /\ ~ret.dry_run /\ IsList(files[ret.filepath])) =>
        \A i \in 1..Len(files[ret.filepath].items) :
            LET was == input[ret.filepath].items[i]
                facility == files[ret.filepath].items[i]
            IN /\ "capacity" \in DOMAIN facility
               /\ ~IsNull(facility.capacity)
               /\ facility.capacity[1] > 0
               /\ IsNull(Get(was, "capacity", Null)) =>
                      /\ facility.capacity
                             = Some(get_estimated_capacity(Get(was, "facility_type", "Unknown")))
                      /\ Get(facility, "capacity_estimated", FALSE) = TRUE

\* a facility without capacity and without type has been given the default
C21_Witness ==
    /\ ret.op = "process_county_file" /\ ~ret.dry_run
    /\ IsList(files[ret.filepath])
    /\ \E i \in 1..Len(files[ret.filepath].items) :
           /\ DOMAIN input[ret.filepath].items[i] = {"name"}
           /\ files[ret.filepath].items[i].capacity = Some(25)
           /\ files[ret.filepath].items[i].capacity_estimated = TRUE

\* C24: a dry run modifies no file: with dry_run = true process_county_file
\* and main (process_directory, update_summary) leave every facility file
\* and summary.json as they are, and return the statistics a real run on the
\* same files returns.
C24_DryRunModifiesNothing ==
    [][/\ (ret'.op = "process_county_file" /\ ret'.dry_run) =>
            /\ files' = files
            /\ summary' = summary
            /\ ret'.stats = process_county_file(files, ret'.filepath, FALSE).stats
       /\ (prog = "estimate" /\ ret'.op = "main" /\ ret'.dry_run) =>
            /\ files' = files
            /\ summary' = summary
            /\ ret'.stats = process_directory(files, FALSE).stats]_vars

\* a dry run has reported an update of a file that no run has changed
C24_Witness ==
    /\ ret.op = "process_county_file" /\ ret.dry_run
    /\ ret.stats.updated > 0
    /\ files = input

\* C29: process_county_file changes only capacity and capacity_estimated: it
\* adds, removes and reorders no facility, leaves every other field of every
\* facility and every facility with a positive capacity as it is, leaves the
\* other files alone, and on a file that is not a list returns all-zero
\* statistics and leaves the file unchanged.
C29_OnlyCapacityFieldsChange ==
    [][ret'.op = "process_county_file" =>
        LET f == ret'.filepath IN
        /\ \A g \in DOMAIN files \ {f} : files'[g] = files[g]
        /\ DOMAIN files' = DOMAIN files
        /\ ~IsList(files[f]) => (files'[f] = files[f] /\ ret'.stats = ZeroStats)
        /\ IsList(files[f]) =>
              /\ IsList(files'[f])
              /\ Len(files'[f].items) = Len(files[f].items)
              /\ \A i \in 1..Len(files[f].items) :
                    LET old == files[f].items[i]
                        new == files'[f].items[i]
                    IN /\ DOMAIN old \subseteq DOMAIN new
                       /\ DOMAIN new \subseteq DOMAIN old \cup {"capacity", "capacity_estimated"}
                       /\ \A k \in DOMAIN old \ {"capacity", "capacity_estimated"} :
                              new[k] = old[k]
                       /\ HasRealCapacity(Get(old, "capacity", Null)) => new = old]_vars

\* a real run has estimated one facility of a file and left the other, which
\* has a capacity, as it was
C29_Witness ==
    /\ ret.op = "process_county_file" /\ ~ret.dry_run
    /\ ret.stats.updated = 1 /\ ret.stats.already_has_capacity = 1
    /\ \E i, j \in 1..Len(files[ret.filepath].items) :
           /\ files[ret.filepath].items[i] = input[ret.filepath].items[i]
           /\ files[ret.filepath].items[i].capacity = Some(40)
           /\ files[ret.filepath].items[j] # input[ret.filepath].items[j]

\* the sum of the counts of a by_type table
TypeCounts(by_type) ==
    SumOver([t \in DOMAIN by_type |-> by_type[t].count], DOMAIN by_type)

\* C30: the statistics are conserved: for a file, total = updated +
\* already_has_capacity and the per-type counts sum to total; after
\* process_directory, total_facilities = facilities_updated +
\* already_has_capacity = the sum of the merged per-type counts = the sum of
\* the totals of the files (the number of facilities in the facility lists).
C30_StatisticsConserved ==
    /\ ret.op = "process_county_file" =>
          /\ ret.stats.total = ret.stats.updated + ret.stats.already_has_capacity
          /\ TypeCounts(ret.stats.by_type) = ret.stats.total
          /\ ret.stats.total = IF IsList(files[ret.filepath])
                               THEN Len(files[ret.filepath].items) ELSE 0
    /\ (prog = "estimate" /\ ret.op = "main") =>
          /\ ret.stats.total_facilities
                 = ret.stats.facilities_updated + ret.stats.already_has_capacity
          /\ TypeCounts(ret.stats.by_type) = ret.stats.total_facilities
          /\ ret.stats.total_facilities = FacilityCount(files)

\* a run over two files with two facilities of one type, one of them updated
C30_Witness ==
    /\ prog = "estimate" /\ ret.op = "main"
    /\ ret.stats.files_processed = 2
    /\ ret.stats.facilities_updated = 1
    /\ ret.stats.already_has_capacity = 1
    /\ \E t \in DOMAIN ret.stats.by_type : ret.stats.by_type[t].count = 2

----------------------------------------------------------------------------
(* Claims about the Maryland status vocabulary *)

\* the canonical status vocabulary
CanonicalStatus == {Str("LICENSED"), Str("CLOSED"), Str("SUSPENDED"), Str("REVOKED")}

\* C25: after clean_and_dedupe the status of every output record is one of
\* LICENSED, CLOSED, SUSPENDED, REVOKED, whatever the status text of the
\* source is.
C25_StatusCanonical ==
    ret.op = "md_main" =>
        \A k \in 1..Len(Montgomery) : Montgomery[k].status \in CanonicalStatus

----------------------------------------------------------------------------
(* Claims about the failures of the scrapers *)

\* the facility search_facilities makes of an item of an answer
Normalized(item) == ccld_facility(item, input.county, input.facility_type_name)

Returned(facility) == \E k \in 1..Len(ret.facilities) : ret.facilities[k] = facility

\* C22: a malformed raw row is not fatal to its batch: a row whose capacity is
\* absent or non-numeric raises nothing out of search_facilities and does not
\* stop it: every other row of its page is normalized and returned, and the
\* following pages are requested.
C22_MalformedRowNotFatal ==
    ret.op = "search_facilities" =>
        \A p \in 1..Len(ret.served) :
            LET response == ret.served[p] IN
            ("raises" \notin DOMAIN response /\ response.status = 200) =>
                /\ \A i \in 1..Len(response.Data) :
                       ~IsNull(ccld_capacity(response.Data[i])) =>
                           Returned(Normalized(response.Data[i]))
                /\ (response.Data # <<>> /\ p * page_size < Get(response, "TotalRecords", 0)) =>
                       p < Len(ret.served)

\* the answer to the request for page ends the loop: it is empty, has a status
\* other than 200, raises (the request, the parsing of the answer, or int on
\* a capacity), or page * 100 >= TotalRecords
SearchStops(response, page) ==
    \/ "raises" \in DOMAIN response
    \/ response.status # 200
    \/ response.Data = <<>>
    \/ \E i \in 1..Len(response.Data) : IsNull(ccld_capacity(response.Data[i]))
    \/ page * page_size >= Get(response, "TotalRecords", 0)

\* the rows of the first n answers, normalized, in the order of the answers
RECURSIVE PageRows(_, _)
PageRows(served, n) ==
    IF n = 0 THEN <<>>
    ELSE PageRows(served, n - 1)
         \o [i \in 1..Len(served[n].Data) |-> Normalized(served[n].Data[i])]

C28_FirstStop ==
    ret.op = "search_facilities" =>
        LET n == Len(ret.served) IN
        /\ ret.requested = [p \in 1..n |-> p]
        /\ SearchStops(ret.served[n], n)
        /\ \A p \in 1..(n - 1) : ~SearchStops(ret.served[p], p)
        /\ SubSeq(ret.facilities, 1, Len(PageRows(ret.served, n - 1)))
               = PageRows(ret.served, n - 1)

\* C28: the pagination loop of search_facilities terminates for every
\* sequence of answers of the server with a bounded TotalRecords: it stops at
\* the first page that is empty, has a status other than 200, raises, or has
\* page * 100 >= TotalRecords; the pages are requested in increasing order
\* from 1, none twice, and the rows of every page fetched before the stop are
\* returned.
C28_PaginationTerminates == []C28_FirstStop /\ <>(pc = Idle)

\* three pages were requested and the rows of all of them returned
C28_Witness ==
    /\ ret.op = "search_facilities"
    /\ ret.requested = <<1, 2, 3>>
    /\ Len(ret.facilities) >= 3
    /\ ret.errors = 0

\* C23: a failure in one jurisdiction does not abort the others: in an
\* all-counties run a failure while one county is processed (a failed detail
\* fetch of one facility included) does not leave the loop, and the next
\* county is scraped and saved.
C23_FailureDoesNotAbort ==
    [][(pc.run = "all" /\ pc.i <= Len(CALIFORNIA_COUNTIES) /\ pc' # pc) =>
           (pc'.run = "all" /\ pc'.i = pc.i + 1)]_vars

\* the files of the counties scrape_all_counties has finished hold the
\* facilities of those counties
C26_FinishedSaved ==
    pc.run = "all" =>
        \A j \in 1..(pc.i - 1) :
            LET county == CALIFORNIA_COUNTIES[j]
                stem == ccld_county_file(county)
                same(saved, scraped) ==
                    /\ Len(saved) = Len(scraped)
                    /\ \A k \in 1..Len(saved) :
                           /\ saved[k].county = county
                           /\ [saved[k] EXCEPT !.scraped_at = 0]
                                  = [scraped[k] EXCEPT !.scraped_at = 0]
            IN /\ stem \in DOMAIN files
               /\ IsList(files[stem])
               /\ same(files[stem].items,
                       ccld_scrape_county(input, county, input.include_details,
                                          now).facilities)

\* C26: in scrape_all_counties the file of a county is written as a unit
\* before the next county is scraped: at every point of the run every county
\* that has finished has its file, with exactly its facilities, and a failure
\* while a later county is processed leaves the files as they are.
C26_CountyFilesWrittenAsUnits ==
    /\ []C26_FinishedSaved
    /\ [][(ret'.op = "scrape_county" /\ ret'.raised) => files' = files]_vars

\* the all-counties run has failed in San Diego, with the file of Alameda
\* written
C26_Witness ==
    /\ pc = Idle
    /\ runs = <<[cmd |-> "failed"]>>
    /\ ret.op = "scrape_county" /\ ret.raised /\ ret.county = "San Diego"
    /\ ccld_county_file("Alameda") \in DOMAIN files
    /\ Len(files[ccld_county_file("Alameda")].items) > 0

\* C27: when the Minnesota run is interrupted (KeyboardInterrupt) at any point
\* of the county loop, the summary then generated covers exactly the counties
\* whose file was saved: no county is in the summary without a saved file, and
\* no county saved by the run is missing from the summary.
C27_InterruptedSummaryCoversSaved ==
    (ret.op = "dhs_generate_summary" /\ ret.interrupted /\ Len(runs) = 1) =>
        /\ \A county \in DOMAIN ret.county_data :
               Replace(Lower(Str(county)), <<" ">>, <<"_">>) \in DOMAIN files
        /\ \A stem \in DOMAIN files :
               /\ summary # NoFile
               /\ files[stem].county \in DOMAIN summary.counties

====
